---- MODULE Spec2Model ----
(***************************************************************************)
(* Session orchestration layer of wa-chat-mcp: the Baileys session manager *)
(* (tenant map, connection.update state machine, restart timers, removal,  *)
(* inactivity sweep), the MCP client-session registry and the event        *)
(* emitter.  One action is one callback turn of the single-threaded        *)
(* scheduler; every await in the source is a boundary between two actions. *)
(***************************************************************************)
EXTENDS Integers, Sequences, FiniteSets, TLC

\* ------------------------------------------------------------------ bounds
Tenants == {"t1", "t2"}            \* mcpSessionId values drawn by the callers
QrValues == {"Q1", "Q2"}           \* qr strings carried by connection.update
MaxSockets == 4                    \* makeWASocket invocations in one run
MaxCalls == 2                      \* the same, in the specifications that explore races
MaxTimers == 3                     \* restart timers armed and not yet fired, per tenant
MaxTime == 2                       \* clock values 0..MaxTime
MaxIdle == 1                       \* maxIdleTimeMs values 0..MaxIdle
MaxFrames == 2                     \* frames kept per transport
MaxRemovals == 1                   \* removeBaileysSession calls suspended at once
MaxActions == 1                    \* client actions in flight at once
MaxKeys == 2     \* populated sub-fields of an inbound message
MaxBatch == 2                      \* messages in one messages.upsert batch
MaxEvents == 3                     \* frames kept per transport where handlers push events

\* --------------------------------------------------------------- constants
MAX_RETRIES == 3

NoSock == 0
NoQr == "none"
Sockets == 1..MaxSockets

VARIABLES
  baileysSessions,  \* the map: tenant -> socket id of its entry, NoSock if absent
  mapOrder,         \* insertion order of the map's keys
  session,          \* the BaileysSession objects, one per constructed socket
  sock,             \* the library side of each socket: ws state, logout/end status,
                    \* the qr it last issued since it was last open
  authDir,          \* the credential directory of each tenant
  creating,         \* getOrCreate calls suspended in useMultiFileAuthState
  timers,           \* armed restart timers per tenant
  removing,         \* removeBaileysSession calls suspended in logout() or fs.rm
  sweep,            \* the cleanupInactiveBaileysSessions call in progress
  now,              \* the clock read by new Date()
  mcpSessions,      \* the registry: id -> McpSession or NoMcp
  connection,       \* the ServerResponse of each id's transport
  wire,             \* the frames written to each transport
  heartbeat,        \* the ids whose keep-alive interval has not been cleared
  actions,          \* the client actions posted to the action server, by slot
  inbound,          \* the inbound message handleNewBaileysMessage is working on
  callArgs,         \* the eventCallbacks and options of the getOrCreate calls under
                    \* way and of the armed restart timers, per tenant
  obs,              \* the last turn: which operation ran, what it returned (for an
                    \* update, the socket that emitted it), the callbacks it invoked
                    \* or events it sent (for a connect, the id the path named)
  lastRet           \* the handle the last completed getOrCreate returned, per tenant

vars == <<baileysSessions, mapOrder, session, sock, authDir, creating, timers,
          removing, sweep, now, mcpSessions, connection, wire, heartbeat, actions,
          inbound, callArgs, obs, lastRet>>

mgrVars == <<baileysSessions, mapOrder, session, sock, authDir, creating, timers,
             removing, sweep, lastRet>>
mcpVars == <<mcpSessions, connection, wire>>
appVars == <<heartbeat, actions, inbound, callArgs>>

\* ------------------------------------------------------------ small helpers
Remove(s, x) == SelectSeq(s, LAMBDA y : y # x)

IndexOf(s, x) == IF \E i \in 1..Len(s) : s[i] = x
                 THEN CHOOSE i \in 1..Len(s) : s[i] = x
                 ELSE 0

\* one directory for every tenant
StateDirShared(t) == <<".baileys_auth_state", "session_", "">>

\* stateDir = path.join(AUTH_STATE_BASE_DIR, `session_${mcpSessionId}`); the
\* ids are the uuids of the push-session registry, which hold no path separator
StateDir(t) == <<".baileys_auth_state", "session_", t>>

NoSession == [mcpSessionId |-> "none", qrCode |-> NoQr, retryCount |-> 0,
              lastActivityTime |-> 0, stateDir |-> <<>>,
              socketOptions |-> "undefined", eventCallbacks |-> "none"]

\* the arguments of a getOrCreateBaileysSession call besides the id: the
\* callbacks object and the options, undefined when the caller gives none
Callbacks == {"callbacks1", "callbacks2"}
OptionValues == {"undefined", "options1"}
Args == [eventCallbacks : Callbacks, options : OptionValues]

\* the call of initializeBaileysForMcpSession (part_005:26-60): no options
WrapperArgs == [eventCallbacks |-> "callbacks1", options |-> "undefined"]

NoArgs == [api |-> [a \in Args |-> 0], timer |-> [a \in Args |-> 0], armed |-> <<>>]

NoObs == [op |-> "none", ret |-> NoSock, cb |-> <<>>]

Constructed == {h \in Sockets : session[h].mcpSessionId # "none"}

SocketsOf(t) == {h \in Sockets : session[h].mcpSessionId = t}

PendingCreates == LET n[S \in SUBSET Tenants] ==
                        IF S = {} THEN 0
                        ELSE LET t == CHOOSE x \in S : TRUE
                             IN creating[t].api + creating[t].timer + n[S \ {t}]
                  IN n[Tenants]

\* a connection the factory built that was neither logged out nor terminated
Live(h) ==
  /\ h \in Constructed
  /\ sock[h].life \in {"live", "logoutCalled"}
  /\ sock[h].ws # "closed"

\* (socket as any).ws?.readyState === ws?.OPEN
WsOpen(h) == sock[h].ws = "open"

\* ------------------------------------------------- registry and event emitter
NoMcp == [id |-> "none", lastSeen |-> 0]
NoConn == [used |-> FALSE, ended |-> FALSE, closed |-> FALSE, destroyed |-> FALSE]

\* the SSE frame built by sendEventToClient: `event: <type>\n` (only when the
\* type is non-empty) followed by `data: <json>\n\n`
Frame(eventType, data) ==
  (IF eventType # "" THEN <<"event: ", eventType, "\n">> ELSE <<>>)
    \o <<"data: ", data, "\n\n">>

\* getSession: the lookup refreshes lastSeen
getSession(ms, id) ==
  IF ms[id].id # "none" THEN [ms EXCEPT ![id].lastSeen = now] ELSE ms

\* a variant of sendEventToClient without the test of line 21
sendEventToClientUnchecked(ms, id, writeOk) ==
  IF ms[id].id = "none" THEN FALSE ELSE writeOk

\* the value sendEventToClient returns for one call; writeOk = the write (and
\* JSON.stringify) did not throw
sendEventToClient(ms, id, writeOk) ==
  IF ms[id].id = "none" THEN FALSE
  ELSE IF connection[id].closed \/ connection[id].destroyed THEN FALSE
  ELSE writeOk

\* an emitter that writes every event to every registered transport
EmitToAll(ms, wr, id, frames, writeOk) ==
  [ms |-> ms, wr |-> [i \in DOMAIN wr |-> IF ms[i].id # "none" THEN wr[i] \o frames ELSE wr[i]]]

\* an emitter that writes each event in front of the frames already written
RECURSIVE EmitInFront(_, _, _, _, _)
EmitInFront(ms, wr, id, frames, writeOk) ==
  IF frames = <<>> THEN [ms |-> ms, wr |-> wr]
  ELSE LET sent == sendEventToClient(ms, id, Head(writeOk))
       IN EmitInFront(getSession(ms, id),
                      IF sent THEN [wr EXCEPT ![id] = <<Head(frames)>> \o @] ELSE wr,
                      id, Tail(frames), Tail(writeOk))

\* the events of one turn, sent one after the other to the same id
RECURSIVE Emit(_, _, _, _, _)
Emit(ms, wr, id, frames, writeOk) ==
  IF frames = <<>> THEN [ms |-> ms, wr |-> wr]
  ELSE LET sent == sendEventToClient(ms, id, Head(writeOk))
       IN Emit(getSession(ms, id),
               IF sent THEN [wr EXCEPT ![id] = Append(@, Head(frames))] ELSE wr,
               id, Tail(frames), Tail(writeOk))

\* write outcomes worth distinguishing for n sends to id
WriteOutcomes(id, n) ==
  IF mcpSessions[id].id = "none" \/ connection[id].closed \/ connection[id].destroyed
  THEN {[i \in 1..n |-> TRUE]}
  ELSE [1..n -> BOOLEAN]

WireRoom(id, n) == mcpSessions[id].id = "none" \/ Len(wire[id]) + n <= MaxFrames

\* the callbacks initializeBaileysForMcpSession hands to the session manager,
\* as the frame each of them sends
CallbackFrame(cb) ==
  CASE cb[1] = "onQR" -> Frame("baileys_qr_update", cb[2])
    [] cb[1] = "onConnected" -> Frame("baileys_connected", "established")
    [] cb[1] = "onDisconnected" -> Frame("baileys_disconnected", "Unknown")
    [] OTHER -> Frame("baileys_new_message", cb[2])

CallbackFrames(cbs) == [i \in 1..Len(cbs) |-> CallbackFrame(cbs[i])]

\* run the callbacks of one turn for tenant t
RunCallbacks(t, cbs) ==
  /\ WireRoom(t, Len(cbs))
  /\ \E w \in WriteOutcomes(t, Len(cbs)) :
       LET r == Emit(mcpSessions, wire, t, CallbackFrames(cbs), w)
       IN /\ mcpSessions' = r.ms
          /\ wire' = r.wr
  /\ UNCHANGED connection

\* --------------------------------------------------------- the tenant map
HasSession(t) == baileysSessions[t] # NoSock

MapSet(t, h) ==
  /\ baileysSessions' = [baileysSessions EXCEPT ![t] = h]
  /\ mapOrder' = IF HasSession(t) THEN mapOrder ELSE Append(mapOrder, t)

\* the position of a running sweep's iterator after key t is deleted
PosAfterDelete(order, pos, t) ==
  IF IndexOf(order, t) # 0 /\ IndexOf(order, t) <= pos THEN pos - 1 ELSE pos

FreshSock == CHOOSE h \in Sockets : h \notin Constructed /\ \A g \in Sockets : g < h => g \in Constructed

\* ------------------------------------------------ getOrCreateBaileysSession
\* a variant of the test of line 464 that reuses an entry only once it is open
ReturnsExistingWhenOpen(t) == HasSession(t) /\ WsOpen(baileysSessions[t])

\* line 464: the call takes the existing-entry branch
ReturnsExisting(t) == HasSession(t)

\* the QR replay of the existing-entry branch
ReplayQr(h) ==
  IF session[h].qrCode # NoQr /\ ~WsOpen(h) THEN <<<<"onQR", session[h].qrCode>>>> ELSE <<>>

\* lines 464-472: the entry exists
GetOrCreateExisting(t) ==
  /\ ReturnsExisting(t)
  /\ LET h == baileysSessions[t]
     IN /\ session' = [session EXCEPT ![h].lastActivityTime = now]
        /\ RunCallbacks(t, ReplayQr(h))
        /\ obs' = [op |-> "existing", ret |-> h, cb |-> ReplayQr(h)]
        /\ lastRet' = [lastRet EXCEPT ![t] = h]
  /\ UNCHANGED <<baileysSessions, mapOrder, sock, authDir, creating, timers,
                 removing, sweep, now>>
  /\ UNCHANGED appVars

\* lines 464, 474-476: no entry, the call getOrCreateBaileysSession(t,
\* a.eventCallbacks, a.options) suspends in useMultiFileAuthState
GetOrCreateCall(t, a) ==
  /\ ~ReturnsExisting(t)
  /\ Cardinality(Constructed) + PendingCreates < MaxSockets
  /\ creating' = [creating EXCEPT ![t].api = @ + 1]
  /\ callArgs' = [callArgs EXCEPT ![t].api[a] = @ + 1]
  /\ obs' = NoObs
  /\ UNCHANGED <<baileysSessions, mapOrder, session, sock, authDir, timers,
                 removing, sweep, now, lastRet>>
  /\ UNCHANGED mcpVars
  /\ UNCHANGED <<heartbeat, actions, inbound>>

\* the same call as the wrapper makes it
GetOrCreateAwait(t) == GetOrCreateCall(t, WrapperArgs)

\* useMultiFileAuthState: creates the directory when absent, reads what is there
LoadedAuth(t) == IF authDir[t] = "creds" THEN "restored" ELSE "fresh"
DirAfterLoad(t) == IF authDir[t] = "absent" THEN "empty" ELSE authDir[t]

\* lines 497-505
NewSession(t, a) ==
  [mcpSessionId |-> t, qrCode |-> NoQr, retryCount |-> 0,
   lastActivityTime |-> now, stateDir |-> StateDir(t),
   socketOptions |-> a.options, eventCallbacks |-> a.eventCallbacks]

\* lines 476-623: the load resolved; socket built, entry stored, handlers registered
GetOrCreateResume(t, origin) ==
  /\ creating[t][origin] > 0
  /\ Cardinality(Constructed) < MaxSockets
  /\ LET h == FreshSock
     IN /\ \E a \in Args :
             /\ callArgs[t][origin][a] > 0
             /\ callArgs' = [callArgs EXCEPT ![t][origin][a] = @ - 1]
             /\ session' = [session EXCEPT ![h] = NewSession(t, a)]
        /\ sock' = [sock EXCEPT ![h] = [ws |-> "connecting", life |-> "live", swept |-> FALSE, issued |-> NoQr]]
        /\ MapSet(t, h)
        /\ lastRet' = [lastRet EXCEPT ![t] = h]
        /\ obs' = [op |-> "created", ret |-> h, cb |-> <<>>]
  /\ authDir' = [authDir EXCEPT ![t] = DirAfterLoad(t)]
  /\ creating' = [creating EXCEPT ![t][origin] = @ - 1]
  /\ UNCHANGED <<timers, removing, sweep, now>>
  /\ UNCHANGED mcpVars
  /\ UNCHANGED <<heartbeat, actions, inbound>>

\* the event of the wrapper's catch (part_005:62-70)
InitErrorFrame ==
  Frame("baileys_error", [message |-> "Failed to initialize", isInitializationError |-> TRUE])

\* a wrapper whose catch ends without a throw
RethrowsNever(origin) == FALSE

\* the caller sees the failure: the wrapper's catch ends in a throw
\* (part_005:71); the restart timer's .catch only logs
Rethrows(origin) == origin = "api"

\* a creation that stores its entry before the socket factory runs
MapAfterThrowPartial(t, at) ==
  IF at = "factory" THEN [baileysSessions EXCEPT ![t] = FreshSock] ELSE baileysSessions

\* the map after line 476 or 495 threw: baileysSessions.set (line 506) was
\* not reached
MapAfterThrow(t, at) == baileysSessions

\* lines 476 / 495 throw: nothing is stored.  A call made through
\* initializeBaileysForMcpSession (part_005:62-72) pushes baileys_error and
\* rethrows; the restart timer's .catch (part_005:567-571) only logs.
GetOrCreateThrow(t, origin, at) ==
  /\ creating[t][origin] > 0
  /\ creating' = [creating EXCEPT ![t][origin] = @ - 1]
  /\ \E a \in Args :
       /\ callArgs[t][origin][a] > 0
       /\ callArgs' = [callArgs EXCEPT ![t][origin][a] = @ - 1]
  /\ authDir' = [authDir EXCEPT ![t] = IF at = "factory" THEN DirAfterLoad(t) ELSE @]
  /\ IF origin = "api"
     THEN /\ WireRoom(t, 1)
          /\ \E w \in WriteOutcomes(t, 1) :
               LET r == Emit(mcpSessions, wire, t, <<InitErrorFrame>>, w)
               IN /\ mcpSessions' = r.ms
                  /\ wire' = r.wr
                  /\ obs' = [op |-> IF Rethrows(origin) THEN "initThrew" ELSE "none",
                             ret |-> sendEventToClient(mcpSessions, t, w[1]),
                             cb |-> <<InitErrorFrame>>]
          /\ UNCHANGED connection
     ELSE /\ obs' = NoObs
          /\ UNCHANGED mcpVars
  /\ baileysSessions' = MapAfterThrow(t, at)
  /\ UNCHANGED <<mapOrder, session, sock, timers, removing, sweep, now, lastRet>>
  /\ UNCHANGED <<heartbeat, actions, inbound>>

\* ------------------------------------------------------ removeBaileysSession
MapDelete(t) ==
  /\ baileysSessions' = [baileysSessions EXCEPT ![t] = NoSock]
  /\ mapOrder' = Remove(mapOrder, t)

\* socket.logout() was called on h by `who` (lines 646-652, up to the await)
LogoutCalled(sk, h, who) ==
  [sk EXCEPT ![h].life = IF @ = "live" THEN "logoutCalled" ELSE @,
             ![h].swept = @ \/ who = "sweep"]

\* the logout settled: resolved ("ok"), or rejected and socket.end() returned
\* ("endOk"), or rejected and socket.end() threw ("endThrows")
Settled(sk, h, outcome) ==
  [sk EXCEPT ![h].life =
     IF @ \in {"loggedOut", "ended"} THEN @
     ELSE IF outcome = "ok" THEN "loggedOut"
     ELSE IF outcome = "endOk" THEN "ended"
     ELSE @]

LogoutOutcomes == {"ok", "endOk", "endThrows"}

\* lines 658-659: an exception thrown by socket.end() inside the catch block
\* leaves removeBaileysSession at once
RemoveAborts(outcome) == outcome = "endThrows"

RemoveRecord(t, h, del, origin) ==
  [id |-> t, h |-> h, del |-> del, pc |-> "logout", origin |-> origin]

RemovalRoom(t) == ~HasSession(t) \/ Cardinality(removing) < MaxRemovals

\* a head without the test of line 647: logout is called on every connection
\* the tenant ever had
RemoveHeadSockNoTest(sk, t, who) ==
  [h \in DOMAIN sk |->
     IF session[h].mcpSessionId = t
     THEN [sk[h] EXCEPT !.life = "logoutCalled", !.swept = @ \/ who = "sweep"]
     ELSE sk[h]]

\* the synchronous head of removeBaileysSession(t, del), run inside another turn:
\* the new values of sock and removing
RemoveHeadSock(sk, t, who) ==
  IF HasSession(t) THEN LogoutCalled(sk, baileysSessions[t], who) ELSE sk
RemoveHeadSet(t, del, origin) ==
  IF HasSession(t)
  THEN removing \cup {RemoveRecord(t, baileysSessions[t], del, origin)}
  ELSE removing

\* what disconnectBaileysForMcpSession (part_005:128-145) sends once the
\* removal it awaited has ended
DisconnectFrame(threw) ==
  IF threw THEN Frame("baileys_error", "Error disconnecting")
  ELSE Frame("baileys_disconnected", "manual_logout")

EmitOne(t, frame) ==
  /\ WireRoom(t, 1)
  /\ \E w \in WriteOutcomes(t, 1) :
       LET r == Emit(mcpSessions, wire, t, <<frame>>, w)
       IN mcpSessions' = r.ms /\ wire' = r.wr
  /\ UNCHANGED connection

RemoveEnds(r, threw) ==
  IF r.origin = "api" THEN EmitOne(r.id, DisconnectFrame(threw)) ELSE UNCHANGED mcpVars

SweepAfterDelete(t) ==
  IF sweep.pc = "await"
  THEN [sweep EXCEPT !.pos = PosAfterDelete(mapOrder, @, t)]
  ELSE sweep

\* disconnectBaileysForMcpSession(t, del) -> removeBaileysSession(t, del)
RemoveCall(t, del) ==
  /\ RemovalRoom(t)
  /\ sock' = RemoveHeadSock(sock, t, "api")
  /\ removing' = RemoveHeadSet(t, del, "api")
  /\ obs' = [op |-> "remove", ret |-> t, cb |-> <<del, HasSession(t)>>]
  /\ IF HasSession(t) THEN UNCHANGED mcpVars
     ELSE EmitOne(t, DisconnectFrame(FALSE))
  /\ UNCHANGED <<baileysSessions, mapOrder, session, authDir, creating, timers,
                 sweep, now, lastRet>>
  /\ UNCHANGED appVars

\* lines 652-689 for a call that is not the sweep's: logout settled
RemoveSettle(r, outcome) ==
  /\ r \in removing /\ r.pc = "logout"
  /\ sock' = Settled(sock, r.h, outcome)
  /\ obs' = NoObs
  /\ IF RemoveAborts(outcome)
     THEN /\ removing' = removing \ {r}
          /\ RemoveEnds(r, TRUE)
          /\ UNCHANGED <<baileysSessions, mapOrder, sweep>>
     ELSE IF r.del
     THEN /\ removing' = (removing \ {r}) \cup {[r EXCEPT !.pc = "rm"]}
          /\ UNCHANGED <<baileysSessions, mapOrder, sweep>>
          /\ UNCHANGED mcpVars
     ELSE /\ removing' = removing \ {r}
          /\ MapDelete(r.id)
          /\ sweep' = SweepAfterDelete(r.id)
          /\ RemoveEnds(r, FALSE)
  /\ UNCHANGED <<session, authDir, creating, timers, now, lastRet>>
  /\ UNCHANGED appVars

\* lines 675-689: fs.rm settled (a rejection is logged), then the map delete
RemoveRmSettle(r, rmOk) ==
  /\ r \in removing /\ r.pc = "rm"
  /\ authDir' = [authDir EXCEPT ![r.id] = IF rmOk THEN "absent" ELSE @]
  /\ removing' = removing \ {r}
  /\ MapDelete(r.id)
  /\ sweep' = SweepAfterDelete(r.id)
  /\ obs' = NoObs
  /\ RemoveEnds(r, FALSE)
  /\ UNCHANGED <<session, sock, creating, timers, now, lastRet>>
  /\ UNCHANGED appVars

\* ------------------------------------------------ connection.update handler
NoUpdate == [qr |-> NoQr, connection |-> "none", status |-> "none", restartMsg |-> FALSE]

\* a classification in which the restart-required signature wins
isLoggedOutUnlessRestart(u) == u.status = "loggedOut" /\ ~u.restartMsg

\* line 535
isLoggedOut(u) == u.status = "loggedOut"

\* a classification that takes every close for restart-required
isRestartRequiredAlways(u) == TRUE

\* lines 537-538
isRestartRequired(u) == u.restartMsg \/ u.status = "515"

\* the close is handled by the restart-required policy
RestartClose(u) == u.connection = "close" /\ ~isLoggedOut(u) /\ isRestartRequired(u)

\* the three policies, by the fields of the close update
LogoutPolicy(u) == u.status = "loggedOut"
RestartPolicy(u) == u.status # "loggedOut" /\ (u.restartMsg \/ u.status = "515")
OtherPolicy(u) == u.status # "loggedOut" /\ ~u.restartMsg /\ u.status # "515"

CloseCauses ==
  {[status |-> "loggedOut", restartMsg |-> FALSE], [status |-> "loggedOut", restartMsg |-> TRUE],
   [status |-> "515", restartMsg |-> FALSE], [status |-> "other", restartMsg |-> TRUE],
   [status |-> "other", restartMsg |-> FALSE]}

CloseUpdate(c) == [NoUpdate EXCEPT !.connection = "close", !.status = c.status,
                                   !.restartMsg = c.restartMsg]

\* what the library may emit on socket h next: qr values and `open` until it
\* opened, one `close` with any cause while it is up, the close that answers
\* logout() or end(); a socket that closed emits nothing further.  The
\* `connecting` update only refreshes lastActivityTime and is not a step.
Updates(h) ==
  LET ws == sock[h].ws
      life == sock[h].life
  IN IF ws = "closed" THEN {}
     ELSE (IF ws = "connecting" /\ life = "live"
           THEN {[NoUpdate EXCEPT !.qr = q] : q \in QrValues}
                  \cup {[NoUpdate EXCEPT !.connection = "open"]}
           ELSE {})
          \cup
          (IF life \in {"live", "logoutCalled"} THEN {CloseUpdate(c) : c \in CloseCauses}
           ELSE IF life = "loggedOut"
           THEN {CloseUpdate([status |-> "loggedOut", restartMsg |-> FALSE])}
           ELSE {CloseUpdate([status |-> "other", restartMsg |-> FALSE])})

IssuedAfter(q, u) ==
  IF u.connection = "open" THEN NoQr ELSE IF u.qr # NoQr THEN u.qr ELSE q

WsAfter(ws, u) ==
  CASE u.connection = "open" -> "open"
    [] u.connection = "close" -> "closed"
    [] OTHER -> ws

\* the callbacks one update invokes, in order (lines 530, 541, 601)
UpdateCallbacks(u) ==
  (IF u.qr # NoQr THEN <<<<"onQR", u.qr>>>> ELSE <<>>)
  \o (IF u.connection = "close" THEN <<<<"onDisconnected", "undefined">>>>
      ELSE IF u.connection = "open" THEN <<<<"onConnected">>>>
      ELSE <<>>)

\* a test of line 552 that stops one retry early
MayRetryOneLess(retryCount) == retryCount < MAX_RETRIES - 1

\* line 552
MayRetry(retryCount) == retryCount < MAX_RETRIES

\* the restart branch arms a timer (lines 546-572)
ArmsTimer(t, u) ==
  /\ u.connection = "close" /\ ~isLoggedOut(u) /\ isRestartRequired(u)
  /\ HasSession(t)
  /\ MayRetry(session[baileysSessions[t]].retryCount)

\* the close that starts removeBaileysSession(t, true) (lines 543-545)
StartsLogoutRemoval(u) == u.connection = "close" /\ isLoggedOut(u)

\* the session objects after the handler ran for socket h (closure object
\* newBaileysSession = session[h]; the map's current entry looked up by id)
SessionsAfterUpdate(h, u) ==
  LET t == session[h].mcpSessionId
      s1 == [session EXCEPT ![h].lastActivityTime = now]
      s2 == IF u.qr # NoQr THEN [s1 EXCEPT ![h].qrCode = u.qr] ELSE s1
      cur == baileysSessions[t]
  IN IF ArmsTimer(t, u) THEN [s2 EXCEPT ![cur].retryCount = @ + 1]
     ELSE IF u.connection = "open"
     THEN LET s3 == IF HasSession(t) THEN [s2 EXCEPT ![cur].retryCount = 0] ELSE s2
              s4 == [s3 EXCEPT ![h].qrCode = NoQr]
          IN IF HasSession(t) THEN [s4 EXCEPT ![cur].qrCode = NoQr] ELSE s4
     ELSE s2

\* a timer that re-creates without the options of the entry
TimerArgsNoOptions(h, cur) ==
  [eventCallbacks |-> session[h].eventCallbacks, options |-> "undefined"]

\* what the timer callback hands to getOrCreateBaileysSession (line 565):
\* eventCallbacks of the closure of the handler of socket h, socketOptions of
\* the entry the map held when the close was processed
TimerArgs(h, cur) ==
  [eventCallbacks |-> session[h].eventCallbacks, options |-> session[cur].socketOptions]

CloseOrigin(h) == IF sock[h].swept THEN "sweepClose" ELSE "close"

ConnectionUpdate(h, u) ==
  /\ h \in Constructed
  /\ u \in Updates(h)
  /\ LET t == session[h].mcpSessionId
     IN /\ session' = SessionsAfterUpdate(h, u)
        /\ RunCallbacks(t, UpdateCallbacks(u))
        /\ obs' = [op |-> "update", ret |-> h, cb |-> UpdateCallbacks(u)]
        /\ IF ArmsTimer(t, u)
           THEN /\ timers[t] < MaxTimers
                /\ timers' = [timers EXCEPT ![t] = @ + 1]
                /\ callArgs' = [callArgs EXCEPT ![t].armed =
                                  Append(@, TimerArgs(h, baileysSessions[t]))]
           ELSE UNCHANGED <<timers, callArgs>>
        /\ IF StartsLogoutRemoval(u)
           THEN /\ RemovalRoom(t)
                /\ sock' = [RemoveHeadSock(sock, t, "close") EXCEPT ![h].ws = WsAfter(@, u),
                                                     ![h].issued = IssuedAfter(@, u)]
                /\ removing' = RemoveHeadSet(t, TRUE, CloseOrigin(h))
           ELSE /\ sock' = [sock EXCEPT ![h].ws = WsAfter(@, u),
                                                     ![h].issued = IssuedAfter(@, u)]
                /\ UNCHANGED removing
  /\ UNCHANGED <<baileysSessions, mapOrder, authDir, creating, sweep, now, lastRet>>
  /\ UNCHANGED <<heartbeat, actions, inbound>>

\* creds.update -> saveCreds (line 509): writes into the tenant's directory;
\* the write fails when the directory is gone
CredsUpdate(h) ==
  /\ h \in Constructed
  /\ sock[h].life = "live" /\ sock[h].ws \in {"connecting", "open"}
  /\ LET t == session[h].mcpSessionId
     IN /\ authDir[t] = "empty"
        /\ authDir' = [authDir EXCEPT ![t] = "creds"]
        /\ obs' = NoObs
  /\ UNCHANGED <<baileysSessions, mapOrder, session, sock, creating, timers,
                 removing, sweep, now, lastRet>>
  /\ UNCHANGED mcpVars
  /\ UNCHANGED appVars

\* a timer that is dropped once the tenant has no entry
TimerArmedWhileEntry(t) == timers[t] > 0 /\ HasSession(t)

\* setTimeout (line 559): the handle is not kept, nothing clears the timer
TimerArmed(t) == timers[t] > 0

\* the restart timer fires (lines 559-572): delete the entry, then getOrCreate,
\* which finds no entry and suspends in useMultiFileAuthState
TimerFires(t) ==
  /\ TimerArmed(t)
  /\ Cardinality(Constructed) + PendingCreates < MaxSockets
  /\ timers' = [timers EXCEPT ![t] = @ - 1]
  /\ MapDelete(t)
  /\ sweep' = SweepAfterDelete(t)
  /\ creating' = [creating EXCEPT ![t].timer = @ + 1]
  /\ callArgs' = [callArgs EXCEPT ![t].armed = Tail(@),
                                  ![t].timer[Head(callArgs[t].armed)] = @ + 1]
  /\ obs' = [op |-> "timer", ret |-> t, cb |-> <<>>]
  /\ UNCHANGED <<session, sock, authDir, removing, now, lastRet>>
  /\ UNCHANGED mcpVars
  /\ UNCHANGED <<heartbeat, actions, inbound>>

\* a lookup that stamps every session object
TouchEvery(ss, t) == [h \in DOMAIN ss |-> [ss[h] EXCEPT !.lastActivityTime = now]]

\* getBaileysSocket's side effect on the entry it finds
Touch(ss, t) ==
  IF HasSession(t) THEN [ss EXCEPT ![baileysSessions[t]].lastActivityTime = now] ELSE ss

\* getBaileysSocket (lines 631-638)
GetBaileysSocket(t) ==
  /\ session' = Touch(session, t)
  /\ obs' = [op |-> "getSocket", ret |-> baileysSessions[t], cb |-> <<>>]
  /\ UNCHANGED <<baileysSessions, mapOrder, sock, authDir, creating, timers,
                 removing, sweep, now, lastRet>>
  /\ UNCHANGED mcpVars
  /\ UNCHANGED appVars

\* the messages of a messages.upsert batch as the handler reads them: the key
\* id, whether msg.message is there, and msg.key.fromMe
MessageIds == {"m1", "m2", "m3"}
UpsertMessages == [id : MessageIds, message : BOOLEAN, fromMe : BOOLEAN]

RECURSIVE SeqsUpTo(_, _)
SeqsUpTo(S, n) ==
  IF n = 0 THEN {<<>>}
  ELSE LET r == SeqsUpTo(S, n - 1)
       IN r \cup {Append(q, x) : q \in r, x \in S}

\* m.messages of an upsert; a missing array and an empty one both skip the
\* loop (line 607) and are the empty batch here
Batches == SeqsUpTo(UpsertMessages, MaxBatch)

\* a test that forwards every message of the batch
ForwardsAny(msg) == TRUE

\* the test of line 610
Forwards(msg) == msg.message /\ ~msg.fromMe

\* the onMessage calls of one batch, in forEach order (lines 609-613)
OnMessageCalls(batch) ==
  LET kept == SelectSeq(batch, Forwards)
  IN [i \in 1..Len(kept) |-> <<"onMessage", kept[i].id>>]

\* the messages.upsert handler of socket h (lines 605-615)
MessagesUpsert(h, batch) ==
  /\ h \in Constructed
  /\ sock[h].ws # "closed"
  /\ RunCallbacks(session[h].mcpSessionId, OnMessageCalls(batch))
  /\ obs' = [op |-> "upsert", ret |-> h, cb |-> OnMessageCalls(batch), batch |-> batch]
  /\ UNCHANGED mgrVars
  /\ UNCHANGED now
  /\ UNCHANGED appVars

\* --------------------------------------------- cleanupInactiveBaileysSessions
IdleSweep == [pc |-> "idle", now0 |-> 0, T |-> 0, pos |-> 0, id |-> "none", h |-> NoSock]

\* line 704
Inactive(lastActivityTime, now0, T) == now0 - lastActivityTime > T

\* the next entry the iterator reaches that the test of line 704 selects
NextIdle(order, map, sess, pos, now0, T) ==
  LET idle == {i \in (pos + 1)..Len(order) :
                 Inactive(sess[map[order[i]]].lastActivityTime, now0, T)}
  IN IF idle = {} THEN 0 ELSE CHOOSE i \in idle : \A j \in idle : i <= j

\* the loop runs until it awaits a removal (lines 703-710) or ends
SweepRuns(order, map, sk, pos, now0, T) ==
  LET i == NextIdle(order, map, session, pos, now0, T)
  IN IF i = 0
     THEN /\ sweep' = IdleSweep
          /\ sock' = sk
     ELSE /\ sweep' = [pc |-> "await", now0 |-> now0, T |-> T, pos |-> i,
                       id |-> order[i], h |-> map[order[i]]]
          /\ sock' = LogoutCalled(sk, map[order[i]], "sweep")

CleanupInactive(T) ==
  /\ sweep.pc = "idle"
  /\ SweepRuns(mapOrder, baileysSessions, sock, 0, now, T)
  /\ obs' = NoObs
  /\ UNCHANGED <<baileysSessions, mapOrder, session, authDir, creating, timers,
                 removing, now, lastRet>>
  /\ UNCHANGED mcpVars
  /\ UNCHANGED appVars

\* the awaited removeBaileysSession(id, false) ends: it threw, or it deleted the
\* key and the loop goes on in the same turn
SweepSettle(outcome) ==
  /\ sweep.pc = "await"
  /\ IF RemoveAborts(outcome)
     THEN /\ sweep' = IdleSweep
          /\ sock' = Settled(sock, sweep.h, outcome)
          /\ obs' = NoObs
          /\ UNCHANGED <<baileysSessions, mapOrder>>
     ELSE /\ MapDelete(sweep.id)
          /\ SweepRuns(Remove(mapOrder, sweep.id),
                       [baileysSessions EXCEPT ![sweep.id] = NoSock],
                       Settled(sock, sweep.h, outcome),
                       PosAfterDelete(mapOrder, sweep.pos, sweep.id),
                       sweep.now0, sweep.T)
          /\ obs' = NoObs
  /\ UNCHANGED <<session, authDir, creating, timers, removing, now, lastRet>>
  /\ UNCHANGED mcpVars
  /\ UNCHANGED appVars

\* --------------------------------------------------------------- the clock
Tick ==
  /\ now < MaxTime
  /\ now' = now + 1
  /\ obs' = NoObs
  /\ UNCHANGED mgrVars
  /\ UNCHANGED mcpVars
  /\ UNCHANGED appVars

\* ------------------------------------------- push transport and the registry
\* an id generator that only avoids the ids registered at the moment
ReusedId == CHOOSE id \in Tenants : mcpSessions[id].id = "none"

\* uuidv4(): an id no session ever had
FreshId == CHOOSE id \in Tenants : ~connection[id].used

\* a removal that ends the transport of the id whether or not it has an entry
ConnEndedAlways(cn, id) == [cn EXCEPT ![id].ended = TRUE]

\* removeSession: the transport is ended unless it already closed, the entry deleted
ConnAfterRemove(cn, id) ==
  IF mcpSessions[id].id # "none" /\ ~cn[id].closed THEN [cn EXCEPT ![id].ended = TRUE] ELSE cn

\* a removal that leaves the entry in place
SessionsKept(ms, id) == ms

SessionsAfterRemove(ms, id) == [ms EXCEPT ![id] = NoMcp]

\* a connect that registers the transport and writes nothing to it
NothingWritten(id) == <<>>

\* what the connect handler writes to the response it registered under id
FirstFrames(id) == <<Frame("session_established", id)>>

\* GET /events[/path]: a session named by the path is torn down, then a session
\* with a fresh id is created and told its id
Connect(path) ==
  /\ \E id \in Tenants : ~connection[id].used
  /\ LET id == FreshId
         known == path # "none" /\ mcpSessions[path].id # "none"
         cn == IF known THEN ConnAfterRemove(connection, path) ELSE connection
         ms == IF known THEN SessionsAfterRemove(mcpSessions, path) ELSE mcpSessions
     IN /\ mcpSessions' = [ms EXCEPT ![id] = [id |-> id, lastSeen |-> now]]
        /\ connection' = [cn EXCEPT ![id] = [NoConn EXCEPT !.used = TRUE]]
        /\ wire' = [wire EXCEPT ![id] = FirstFrames(id)]
        /\ heartbeat' = [heartbeat EXCEPT ![id] = TRUE]
        /\ obs' = [op |-> "connect", ret |-> id, cb |-> <<path>>]
  /\ UNCHANGED mgrVars
  /\ UNCHANGED now
  /\ UNCHANGED <<actions, inbound, callArgs>>

\* the client went away or the ended response was flushed: the stream is
\* destroyed; the request's close event is delivered in a later turn
SocketDestroyed(id) ==
  /\ connection[id].used /\ ~connection[id].closed
  /\ connection' = [connection EXCEPT ![id].closed = TRUE, ![id].destroyed = TRUE]
  /\ obs' = NoObs
  /\ UNCHANGED <<mcpSessions, wire, now>>
  /\ UNCHANGED mgrVars
  /\ UNCHANGED appVars

\* req.on('close'): clearInterval(heartbeatInterval), removeSession(sessionId)
ReqClose(id) ==
  /\ connection[id].closed
  /\ heartbeat' = [heartbeat EXCEPT ![id] = FALSE]
  /\ connection' = ConnAfterRemove(connection, id)
  /\ mcpSessions' = SessionsAfterRemove(mcpSessions, id)
  /\ obs' = NoObs
  /\ UNCHANGED <<wire, now>>
  /\ UNCHANGED mgrVars
  /\ UNCHANGED <<actions, inbound, callArgs>>

\* the keep-alive comment written by the interval
HeartbeatFrame == <<":heartbeat", "\n\n">>

\* one tick of the 15 s interval set up by GET /events: once the response is
\* closed the interval clears itself and removes the session, otherwise it
\* writes the keep-alive comment to the response it closed over
Heartbeat(id) ==
  /\ heartbeat[id]
  /\ IF connection[id].closed
     THEN /\ heartbeat' = [heartbeat EXCEPT ![id] = FALSE]
          /\ connection' = ConnAfterRemove(connection, id)
          /\ mcpSessions' = SessionsAfterRemove(mcpSessions, id)
          /\ obs' = [op |-> "heartbeat", ret |-> FALSE, cb |-> <<>>]
          /\ UNCHANGED wire
     ELSE /\ Len(wire[id]) < MaxFrames
          /\ wire' = [wire EXCEPT ![id] = Append(@, HeartbeatFrame)]
          /\ obs' = [op |-> "heartbeat", ret |-> TRUE, cb |-> <<>>]
          /\ UNCHANGED <<heartbeat, connection, mcpSessions>>
  /\ UNCHANGED <<actions, inbound, callArgs, now>>
  /\ UNCHANGED mgrVars

\* removeSession(id) called on any id, registered or not
RemoveSession(id) ==
  /\ connection' = ConnAfterRemove(connection, id)
  /\ mcpSessions' = SessionsAfterRemove(mcpSessions, id)
  /\ obs' = [op |-> "removeSession", ret |-> id, cb |-> <<mcpSessions[id].id # "none">>]
  /\ UNCHANGED <<wire, now>>
  /\ UNCHANGED mgrVars
  /\ UNCHANGED appVars

\* the ids in the order uuidv4 hands them out, which is the insertion order of
\* the registry's Map since no id is registered twice
RECURSIVE IdsFrom(_)
IdsFrom(used) ==
  IF used = Tenants THEN <<>>
  ELSE LET id == CHOOSE i \in Tenants : i \notin used
       IN <<id>> \o IdsFrom(used \cup {id})

\* a staleness test that also spares a session whose transport is still open
StaleAndClosed(id, T) == now - mcpSessions[id].lastSeen > T /\ connection[id].closed

\* the test of line 197, with `now` read once before the loop
Stale(id, T) == now - mcpSessions[id].lastSeen > T

\* the keys sessions.forEach visits and finds stale, in Map order
StaleKeys(T) ==
  SelectSeq(IdsFrom({}), LAMBDA id : mcpSessions[id].id # "none" /\ Stale(id, T))

\* connection.end() is reached for id (line 179) and throws
EndThrows(id, failing) == id = failing /\ ~connection[id].closed

\* the keys removeSession returned for before an exception left the forEach
RECURSIVE Swept(_, _)
Swept(keys, failing) ==
  IF keys = <<>> \/ EndThrows(Head(keys), failing) THEN <<>>
  ELSE <<Head(keys)>> \o Swept(Tail(keys), failing)

\* cleanupStaleSessions(T) (lines 194-202): one synchronous forEach that calls
\* removeSession on every stale key; nothing catches an exception of
\* connection.end(), which leaves the loop and the function
CleanupStaleSessions(T, failing) ==
  /\ \E id \in Tenants : mcpSessions[id].id # "none"
  /\ LET keys == Swept(StaleKeys(T), failing)
         done == {keys[i] : i \in 1..Len(keys)}
     IN /\ connection' = [id \in Tenants |->
                            IF id \in done THEN ConnAfterRemove(connection, id)[id]
                            ELSE connection[id]]
        /\ mcpSessions' = [id \in Tenants |->
                             IF id \in done THEN SessionsAfterRemove(mcpSessions, id)[id]
                             ELSE mcpSessions[id]]
        /\ obs' = [op |-> "cleanupStale", ret |-> Len(keys) < Len(StaleKeys(T)),
                   cb |-> <<T>>]
  /\ UNCHANGED <<wire, now>>
  /\ UNCHANGED mgrVars
  /\ UNCHANGED appVars

EventTypes == {"", "baileys_qr_update"}

\* one call of sendEventToClient(id, eventType, data); writeOk = neither
\* JSON.stringify nor connection.write threw
SendEvent(id, eventType, writeOk) ==
  /\ WireRoom(id, 1)
  /\ LET r == Emit(mcpSessions, wire, id, <<Frame(eventType, "data")>>, <<writeOk>>)
     IN /\ mcpSessions' = r.ms
        /\ wire' = r.wr
  /\ obs' = [op |-> "send", ret |-> sendEventToClient(mcpSessions, id, writeOk),
             cb |-> <<id, eventType>>]
  /\ UNCHANGED <<connection, now>>
  /\ UNCHANGED mgrVars
  /\ UNCHANGED appVars

\* req.on('error'): clearInterval, removeSession, then res.end() unless closed
ReqError(id) ==
  /\ connection[id].used /\ ~connection[id].closed
  /\ heartbeat' = [heartbeat EXCEPT ![id] = FALSE]
  /\ connection' = [connection EXCEPT ![id].ended = TRUE]
  /\ mcpSessions' = SessionsAfterRemove(mcpSessions, id)
  /\ obs' = NoObs
  /\ UNCHANGED <<wire, now>>
  /\ UNCHANGED mgrVars
  /\ UNCHANGED <<actions, inbound, callArgs>>

\* ------------------------------------------------ client actions (POST /mcp/action)
\* what the handler distinguishes in a payload: recipientJid falsy, without
\* '@' or well-formed; text a string or not; mediaSource absent, a data URI
\* (well-formed or not), another string (URL or path) or a non-string
Payloads ==
  {p \in [falsy : BOOLEAN, recipientJid : {"", "nojid", "jid@s"},
          text : {"absent", "string"},
          mediaSource : {"absent", "data:bad", "data:ok", "url", "object"}] :
     p.falsy => p.recipientJid = "" /\ p.text = "absent" /\ p.mediaSource = "absent"}

ActionTypes == {"", "SEND_TEXT_MESSAGE", "SEND_IMAGE_MESSAGE", "GET_CHATS"}
RequestIds == {"undefined", "req-1"}
Bodies == {"", "not json", "json"}

McpClientActions == [actionType : ActionTypes, payload : Payloads, requestId : RequestIds]

\* a slot holds an action from its POST until the server answers the request
NoAction == [st |-> "free", id |-> "none", actionType |-> "", requestId |-> "undefined"]

\* sendResponse (lines 32-39): the data spread, then the two echo fields
sendResponse(action, eventType, data) ==
  [type |-> eventType,
   data |-> [f \in DOMAIN data \cup {"_originalActionType", "_requestId"} |->
               IF f = "_originalActionType" THEN action.actionType
               ELSE IF f = "_requestId" THEN action.requestId
               ELSE data[f]]]

SuccessData == [message |-> "sent successfully", baileysMessageId |-> "key.id",
                details |-> "recipientJid"]
ErrorData == [message |-> "Error processing action", details |-> "none"]

\* the event sendTextMessage pushes on each of its failures
BaileysError == [type |-> "baileys_error", data |-> [message |-> "Cannot send message"]]

Terminals(events) ==
  SelectSeq(events, LAMBDA e : e.type \in {"mcp_action_success", "mcp_action_error"})

\* sendEventToClient called once per event, in order
Push(id, events) ==
  /\ mcpSessions[id].id = "none" \/ Len(wire[id]) + Len(events) <= MaxEvents
  /\ \E w \in WriteOutcomes(id, Len(events)) :
       LET r == Emit(getSession(mcpSessions, id), wire, id,
                     [i \in 1..Len(events) |-> Frame(events[i].type, events[i].data)], w)
       IN mcpSessions' = r.ms /\ wire' = r.wr
  /\ UNCHANGED connection

\* a sendTextMessage that fails without telling the client
sendTextMessageSilent(id, p) ==
  IF ~HasSession(id) \/ p.recipientJid # "jid@s" THEN [ret |-> "undefined", events |-> <<>>]
  ELSE [ret |-> "pending", events |-> <<>>]

\* sendTextMessage up to its await (part_005:96-117)
sendTextMessageSync(id, p) ==
  IF ~HasSession(id) THEN [ret |-> "undefined", events |-> <<BaileysError>>]
  ELSE IF p.recipientJid # "jid@s" THEN [ret |-> "undefined", events |-> <<BaileysError>>]
  ELSE [ret |-> "pending", events |-> <<>>]

TextPayloadOk(p) == p.recipientJid # "" /\ p.text = "string"
ImagePayloadOk(p) == p.recipientJid # "" /\ p.mediaSource # "absent"

\* handleMcpClientAction up to its first await that waits for I/O
handleMcpClientActionSync(id, a) ==
  LET p == a.payload
      err == sendResponse(a, "mcp_action_error", ErrorData)
      text == sendTextMessageSync(id, p)
  IN CASE a.actionType = "SEND_TEXT_MESSAGE" /\ ~TextPayloadOk(p) ->
            [st |-> "done", sent |-> "none", events |-> <<err>>, touched |-> FALSE]
       [] a.actionType = "SEND_TEXT_MESSAGE" /\ TextPayloadOk(p) /\ text.ret = "undefined" ->
            [st |-> "done", sent |-> "undefined", events |-> text.events \o <<err>>,
             touched |-> TRUE]
       [] a.actionType = "SEND_TEXT_MESSAGE" /\ TextPayloadOk(p) /\ text.ret = "pending" ->
            [st |-> "textSend", sent |-> "pending", events |-> <<>>, touched |-> TRUE]
       [] a.actionType = "SEND_IMAGE_MESSAGE"
            /\ (~ImagePayloadOk(p) \/ p.mediaSource \in {"data:bad", "object"}) ->
            [st |-> "done", sent |-> "none", events |-> <<err>>, touched |-> FALSE]
       [] a.actionType = "SEND_IMAGE_MESSAGE" /\ ImagePayloadOk(p)
            /\ p.mediaSource = "data:ok" /\ ~HasSession(id) ->
            [st |-> "done", sent |-> "none", events |-> <<err>>, touched |-> TRUE]
       [] a.actionType = "SEND_IMAGE_MESSAGE" /\ ImagePayloadOk(p)
            /\ p.mediaSource = "data:ok" /\ HasSession(id) ->
            [st |-> "imageSend", sent |-> "none", events |-> <<>>, touched |-> TRUE]
       [] a.actionType = "SEND_IMAGE_MESSAGE" /\ ImagePayloadOk(p) /\ p.mediaSource = "url" ->
            [st |-> "prepare", sent |-> "none", events |-> <<>>, touched |-> FALSE]
       [] OTHER ->
            [st |-> "done", sent |-> "none", events |-> <<err>>, touched |-> FALSE]

\* index.ts:81-92: the body must parse and carry a truthy actionType and payload
Accepted(body, a) == body = "json" /\ a.actionType # "" /\ ~a.payload.falsy

FreeSlot(k) == actions[k].st = "free" /\ \A j \in 1..(k - 1) : actions[j].st # "free"

\* what one turn of an action reports: the HTTP status once the request is
\* answered (0 before), and what sendTextMessage returned if it returned
Answer(http, sent) == [http |-> http, sent |-> sent]

\* POST /mcp/action/:id, from the request to the handler's first await or to
\* the HTTP response: 400 for a body the server rejects, 202 once the handler
\* returned
PostAction(k, id, body, a) ==
  /\ FreeSlot(k)
  /\ LET r == handleMcpClientActionSync(id, a)
         events == IF Accepted(body, a) THEN r.events ELSE <<>>
     IN /\ Push(id, events)
        /\ actions' =
             [actions EXCEPT ![k] =
                IF Accepted(body, a) /\ r.st # "done"
                THEN [st |-> r.st, id |-> id, actionType |-> a.actionType,
                      requestId |-> a.requestId]
                ELSE NoAction]
        /\ session' = IF Accepted(body, a) /\ r.touched THEN Touch(session, id) ELSE session
        /\ obs' = [op |-> "action",
                   ret |-> IF ~Accepted(body, a) THEN Answer(400, "none")
                           ELSE IF r.st = "done" THEN Answer(202, r.sent)
                           ELSE Answer(0, r.sent),
                   cb |-> events]
  /\ UNCHANGED <<baileysSessions, mapOrder, sock, authDir, creating, timers, removing,
                 sweep, now, lastRet, heartbeat, inbound, callArgs>>

\* the action of slot k as the handler closed over it
ActionOf(k) == [actionType |-> actions[k].actionType, requestId |-> actions[k].requestId]

\* the handler returns and the request is answered 202
Finish(k, sent, events) ==
  /\ Push(actions[k].id, events)
  /\ actions' = [actions EXCEPT ![k] = NoAction]
  /\ obs' = [op |-> "action", ret |-> Answer(202, sent), cb |-> events]

SendOutcomes == {"message", "undefined", "rejects"}

\* socket.sendMessage settled inside sendTextMessage (part_005:117-127), then
\* the rest of the handler (lines 53-61, 141-148)
TextSendSettle(k, outcome) ==
  /\ actions[k].st = "textSend"
  /\ LET ok == sendResponse(ActionOf(k), "mcp_action_success", SuccessData)
         err == sendResponse(ActionOf(k), "mcp_action_error", ErrorData)
     IN CASE outcome = "message" -> Finish(k, "message", <<ok>>)
          [] outcome = "undefined" -> Finish(k, "undefined", <<err>>)
          [] OTHER -> Finish(k, "undefined", <<BaileysError, err>>)
  /\ UNCHANGED <<mgrVars, now, heartbeat, inbound, callArgs>>

\* prepareMediaForSending settled (fetch or readFile), then getBaileysSocket
PrepareSettle(k, prepared) ==
  /\ actions[k].st = "prepare"
  /\ LET err == sendResponse(ActionOf(k), "mcp_action_error", ErrorData)
     IN IF prepared /\ HasSession(actions[k].id)
        THEN /\ actions' = [actions EXCEPT ![k].st = "imageSend"]
             /\ obs' = [op |-> "action", ret |-> Answer(0, "none"), cb |-> <<>>]
             /\ UNCHANGED mcpVars
        ELSE Finish(k, "none", <<err>>)
  /\ session' = IF prepared THEN Touch(session, actions[k].id) ELSE session
  /\ UNCHANGED <<baileysSessions, mapOrder, sock, authDir, creating, timers, removing,
                 sweep, now, lastRet, heartbeat, inbound, callArgs>>

\* socket.sendMessage settled for the image (lines 106-115)
ImageSendSettle(k, outcome) ==
  /\ actions[k].st = "imageSend"
  /\ LET ok == sendResponse(ActionOf(k), "mcp_action_success", SuccessData)
         err == sendResponse(ActionOf(k), "mcp_action_error", ErrorData)
     IN IF outcome = "message" THEN Finish(k, "none", <<ok>>) ELSE Finish(k, "none", <<err>>)
  /\ UNCHANGED <<mgrVars, now, heartbeat, inbound, callArgs>>

\* ------------------------------------------- inbound messages (adapter, index.ts)
MediaFields == <<"imageMessage", "videoMessage", "audioMessage", "documentMessage",
                 "stickerMessage">>
MediaTypes == <<"image", "video", "audio", "document", "sticker">>

MessageFields ==
  {"conversation", "extendedTextMessage", "reactionMessage", "locationMessage",
   "contactMessage", "contactsArrayMessage", "pollCreationMessage"}
    \cup {MediaFields[i] : i \in 1..Len(MediaFields)}

\* a raw WAMessage as the adapter reads it: whether message.message is there,
\* which of its sub-fields are populated, whether conversation is the empty string
RawMessages ==
  {m \in [present : BOOLEAN, keys : SUBSET MessageFields, emptyConversation : BOOLEAN] :
     /\ ~m.present => m.keys = {}
     /\ m.emptyConversation => "conversation" \in m.keys}

\* the raw messages the message slice feeds in: at most MaxKeys sub-fields
MessageInputs == {m \in RawMessages : Cardinality(m.keys) <= MaxKeys}

NoRaw == [present |-> FALSE, keys |-> {}, emptyConversation |-> FALSE]

\* message.message?.<field> as a condition
Truthy(m, field) ==
  /\ field \in m.keys
  /\ field = "conversation" => ~m.emptyConversation

HasMedia(m) == \E i \in 1..Len(MediaFields) : Truthy(m, MediaFields[i])

\* downloadAndProcessMedia, lines 277-308: the first media sub-field decides
MessageType(m) ==
  MediaTypes[CHOOSE i \in 1..Len(MediaFields) :
               /\ Truthy(m, MediaFields[i])
               /\ \A j \in 1..(i - 1) : ~Truthy(m, MediaFields[j])]

\* the ProcessedMediaInfo downloadAndProcessMedia resolves to
MediaOutcomes == {"missingKey", "failed", "stored", "storedCaption"}

ProcessedMediaInfo(m, outcome) ==
  [type |-> MessageType(m),
   mimeType |-> IF outcome = "missingKey" THEN "" ELSE "mimetype",
   caption |-> IF outcome = "storedCaption" THEN "caption" ELSE "undefined",
   fileName |-> IF outcome = "missingKey" THEN "undefined" ELSE "originalFileName",
   filePath |-> IF outcome \in {"stored", "storedCaption"} THEN "temp_media/file"
                ELSE "undefined",
   error |-> IF outcome \in {"missingKey", "failed"} THEN "error" ELSE "undefined"]

\* mcpMessagePayload before the branches (lines 578-585)
BasePayload == [type |-> "text", text |-> "undefined", keys |-> {}, media |-> <<>>]

\* the branches without an await (lines 588-594, 635-666), in source order
PayloadOf(m) ==
  IF Truthy(m, "conversation") THEN [BasePayload EXCEPT !.text = "conversation"]
  ELSE IF Truthy(m, "extendedTextMessage")
    THEN [BasePayload EXCEPT !.text = "extendedTextMessage.text"]
  ELSE IF Truthy(m, "reactionMessage") THEN [BasePayload EXCEPT !.type = "reaction"]
  ELSE IF Truthy(m, "locationMessage") THEN [BasePayload EXCEPT !.type = "location"]
  ELSE IF Truthy(m, "contactMessage") THEN [BasePayload EXCEPT !.type = "contact"]
  ELSE IF Truthy(m, "contactsArrayMessage")
    THEN [BasePayload EXCEPT !.type = "contacts_array"]
  ELSE [BasePayload EXCEPT !.type = "unknown", !.text = "Content keys",
                           !.keys = IF m.present THEN m.keys ELSE {"null"}]

\* the media branch once downloadAndProcessMedia resolved (lines 607-630)
MediaPayload(mediaInfo) ==
  [type |-> IF mediaInfo.type # "" THEN mediaInfo.type ELSE "media",
   text |-> IF mediaInfo.caption # "undefined" THEN mediaInfo.caption ELSE "undefined",
   keys |-> {},
   media |-> [type |-> mediaInfo.type, mimeType |-> mediaInfo.mimeType,
              caption |-> mediaInfo.caption, fileName |-> mediaInfo.fileName,
              _serverFilePath |-> mediaInfo.filePath, error |-> mediaInfo.error]]

\* JSON.stringify keeps the properties whose value is not undefined
JsonKeys(obj) == {f \in DOMAIN obj : obj[f] # "undefined"}

Stringify(payload) ==
  [type |-> payload.type, text |-> payload.text, keys |-> payload.keys,
   media |-> JsonKeys(payload.media)]

NoInbound == [pc |-> "idle", id |-> "none", raw |-> NoRaw]

NewMessageEvent(payload) == [type |-> "baileys_new_message", data |-> Stringify(payload)]

\* the media branch is taken (lines 588-601)
TakesMediaBranch(m) ==
  ~Truthy(m, "conversation") /\ ~Truthy(m, "extendedTextMessage") /\ HasMedia(m)

\* handleNewBaileysMessage(id, m): to the forward of line 669, or to the await
\* of line 605 for a media message
HandleNewMessage(id, m) ==
  /\ inbound.pc = "idle"
  /\ IF TakesMediaBranch(m)
     THEN /\ inbound' = [pc |-> "download", id |-> id, raw |-> m]
          /\ obs' = [op |-> "message", ret |-> id, cb |-> <<>>]
          /\ UNCHANGED mcpVars
     ELSE /\ Push(id, <<NewMessageEvent(PayloadOf(m))>>)
          /\ inbound' = NoInbound
          /\ obs' = [op |-> "message", ret |-> id, cb |-> <<NewMessageEvent(PayloadOf(m))>>]
  /\ UNCHANGED <<mgrVars, now, heartbeat, actions, callArgs>>

\* downloadAndProcessMedia resolved: lines 607-630, then the forward of line 669
MediaSettle(outcome) ==
  /\ inbound.pc = "download"
  /\ LET p == MediaPayload(ProcessedMediaInfo(inbound.raw, outcome))
     IN /\ Push(inbound.id, <<NewMessageEvent(p)>>)
        /\ inbound' = NoInbound
        /\ obs' = [op |-> "message", ret |-> inbound.id, cb |-> <<NewMessageEvent(p)>>]
  /\ UNCHANGED <<mgrVars, now, heartbeat, actions, callArgs>>

\* ------------------------------------------------------------ specifications
Init ==
  /\ baileysSessions = [t \in Tenants |-> NoSock]
  /\ mapOrder = <<>>
  /\ session = [h \in Sockets |-> NoSession]
  /\ sock = [h \in Sockets |-> [ws |-> "none", life |-> "none", swept |-> FALSE, issued |-> NoQr]]
  /\ authDir = [t \in Tenants |-> "absent"]
  /\ creating = [t \in Tenants |-> [api |-> 0, timer |-> 0]]
  /\ timers = [t \in Tenants |-> 0]
  /\ removing = {}
  /\ sweep = IdleSweep
  /\ now = 0
  /\ mcpSessions = [t \in Tenants |-> NoMcp]
  /\ connection = [t \in Tenants |-> NoConn]
  /\ wire = [t \in Tenants |-> <<>>]
  /\ heartbeat = [t \in Tenants |-> FALSE]
  /\ actions = [k \in 1..MaxActions |-> NoAction]
  /\ inbound = NoInbound
  /\ callArgs = [t \in Tenants |-> NoArgs]
  /\ obs = NoObs
  /\ lastRet = [t \in Tenants |-> NoSock]

\* socket budget of the specifications that explore interleaved creations
CallsLeft == Cardinality(Constructed) + PendingCreates < MaxCalls

\* the tenant has neither an entry nor a creation under way
Untouched(t) == ~HasSession(t) /\ creating[t].api + creating[t].timer = 0

\* Session lifecycle of two tenants: interleaved getOrCreate calls, the
\* connection.update handler for every update but the terminal logout,
\* restart timers.
Next ==
  \/ \E t \in Tenants : GetOrCreateExisting(t)
  \/ \E t \in Tenants : CallsLeft /\ GetOrCreateAwait(t)
  \/ \E t \in Tenants, origin \in {"api", "timer"} : GetOrCreateResume(t, origin)
  \/ \E h \in Sockets : \E u \in {v \in Updates(h) : ~isLoggedOut(v)} :
       ConnectionUpdate(h, u)
  \/ \E t \in Tenants : CallsLeft /\ TimerFires(t)

Spec == Init /\ [][Next]_vars

\* Credential directories of two tenants: creations interleaved with
\* restart-required closes and the timers they arm, one creation more than
\* in Spec so that a tenant is re-created next to an entry of the other.
NextDirs ==
  \/ \E t \in Tenants : GetOrCreateExisting(t)
  \/ \E t \in Tenants :
       /\ Cardinality(Constructed) + PendingCreates <= MaxCalls
       /\ Untouched(t)
       /\ GetOrCreateAwait(t)
  \/ \E t \in Tenants, origin \in {"api", "timer"} : GetOrCreateResume(t, origin)
  \/ \E h \in Sockets :
       \E u \in {v \in Updates(h) : v.connection = "close" /\ isRestartRequired(v)} :
         ConnectionUpdate(h, u)
  \/ \E t \in Tenants :
       Cardinality(Constructed) + PendingCreates <= MaxCalls /\ TimerFires(t)

SpecDirs == Init /\ [][NextDirs]_vars

\* Retry counting of one tenant: concurrent getOrCreate calls leave several
\* connections whose handlers all act on the tenant's current entry; they
\* issue a qr, open, or close restart-required or for another cause.
CountRoom == Cardinality(Constructed) + PendingCreates <= MAX_RETRIES

NextCount ==
  \/ \E t \in {"t1"} : GetOrCreateExisting(t)
  \/ \E t \in {"t1"} : timers[t] = 0 /\ CountRoom /\ GetOrCreateAwait(t)
  \/ \E t \in {"t1"}, origin \in {"api", "timer"} : GetOrCreateResume(t, origin)
  \/ \E h \in Sockets :
       \E u \in {v \in Updates(h) : v.qr # "Q2" /\ ~isLoggedOut(v) /\ v.status # "515"} :
         ConnectionUpdate(h, u)
  \/ \E t \in {"t1"} : CountRoom /\ TimerFires(t)

SpecCount == Init /\ [][NextCount]_vars

\* One tenant whose connections only ever close restart-required: the first
\* call, then restart timers alone re-create the connection.
NextRetry ==
  \/ \E t \in {"t1"} : GetOrCreateExisting(t)
  \/ \E t \in {"t1"} : Constructed = {} /\ Untouched(t) /\ GetOrCreateAwait(t)
  \/ \E t \in {"t1"}, origin \in {"api", "timer"} : GetOrCreateResume(t, origin)
  \/ \E h \in Sockets :
       \E u \in {v \in Updates(h) : v.connection # "open" /\ ~isLoggedOut(v)
                                     /\ (v.connection = "close" => isRestartRequired(v))} :
         ConnectionUpdate(h, u)
  \/ \E t \in {"t1"} : TimerFires(t)

SpecRetry == Init /\ [][NextRetry]_vars

\* Restart of one tenant: a first call with any callbacks and options, then
\* qr, open and restart-required closes and the timers they arm.
NextRestart ==
  \/ \E t \in {"t1"} : GetOrCreateExisting(t)
  \/ \E t \in {"t1"}, a \in Args : Constructed = {} /\ Untouched(t) /\ GetOrCreateCall(t, a)
  \/ \E t \in {"t1"}, origin \in {"api", "timer"} : GetOrCreateResume(t, origin)
  \/ \E h \in Sockets :
       \E u \in {v \in Updates(h) : v.qr # "Q2" /\ (v.connection = "close" => RestartClose(v))} :
         ConnectionUpdate(h, u)
  \/ \E t \in {"t1"} : TimerFires(t)

SpecRestart == Init /\ [][NextRestart]_vars

\* Armed timers of one tenant against everything that may happen before they
\* fire: the tenant is removed by a disconnect call, swept for inactivity,
\* re-initialized by a new call, its new connection opens.  A restart-required
\* close is taken only while the socket budget has room for the re-creation.
TimerRoom == Cardinality(Constructed) + PendingCreates + timers["t1"] < MAX_RETRIES

NextTimer ==
  \/ \E t \in {"t1"} : TimerRoom /\ Untouched(t) /\ GetOrCreateAwait(t)
  \/ \E t \in {"t1"}, origin \in {"api", "timer"} : GetOrCreateResume(t, origin)
  \/ \E h \in Sockets :
       \E u \in {v \in Updates(h) : /\ v.qr = NoQr /\ ~isLoggedOut(v) /\ v.status # "515"
                                     /\ (RestartClose(v) => TimerRoom)} :
         ConnectionUpdate(h, u)
  \/ \E t \in {"t1"} : RemoveCall(t, FALSE)
  \/ \E r \in removing : RemoveSettle(r, "ok")
  \/ CleanupInactive(0)
  \/ SweepSettle("ok")
  \/ now < MaxIdle /\ Tick
  \/ \E t \in {"t1"} : TimerFires(t)

SpecTimer == Init /\ [][NextTimer]_vars /\ WF_vars(TimerFires("t1"))

\* The QR code of one tenant's entry: a re-initializing client races its own
\* creations; the connections issue QR codes, open, and close for a cause that
\* is neither logout nor restart-required, so that no timer is armed.
NextQr ==
  \/ \E t \in {"t1"} : GetOrCreateExisting(t)
  \/ \E t \in {"t1"} : CallsLeft /\ GetOrCreateAwait(t)
  \/ \E t \in {"t1"} : GetOrCreateResume(t, "api")
  \/ \E h \in Sockets :
       \E u \in {v \in Updates(h) : v.connection = "close" => OtherPolicy(v)} :
         ConnectionUpdate(h, u)

SpecQr == Init /\ [][NextQr]_vars

\* The connection-state events of one tenant on its client's transport: the
\* client connects, its connections (also duplicates from racing creations)
\* deliver QR codes, open and close without a timer being armed, and writes
\* to the transport may fail.
NextOrder ==
  \/ ~connection["t1"].used /\ Connect("none")
  \/ \E t \in {"t1"} : CallsLeft /\ GetOrCreateAwait(t)
  \/ \E t \in {"t1"} : GetOrCreateResume(t, "api")
  \/ \E h \in Sockets :
       \E u \in {v \in Updates(h) : v.connection = "close" => OtherPolicy(v)} :
         ConnectionUpdate(h, u)

SpecOrder == Init /\ [][NextOrder]_vars

\* Terminal logout of one tenant next to restart timers: connections close
\* for every cause, the tenant is disconnected by a call and
\* re-initialized by a call.
LogoutRoom == Cardinality(Constructed) + PendingCreates <= MaxCalls

NextLogout ==
  \/ \E t \in {"t1"} : LogoutRoom /\ Untouched(t) /\ GetOrCreateAwait(t)
  \/ \E t \in {"t1"}, origin \in {"api", "timer"} : GetOrCreateResume(t, origin)
  \/ \E h \in Sockets :
       \E u \in {v \in Updates(h) : v.connection = "close"} : ConnectionUpdate(h, u)
  \/ \E t \in {"t1"} : RemoveCall(t, FALSE)
  \/ \E r \in removing : RemoveSettle(r, "ok")
  \/ \E r \in removing : RemoveRmSettle(r, TRUE)
  \/ \E t \in {"t1"} : LogoutRoom /\ TimerFires(t)

SpecLogout == Init /\ [][NextLogout]_vars

\* Removal: disconnect calls and terminal-logout closes of one tenant, with
\* the credential directory written by creds.update and deleted by the
\* removal; creations may fail.
NextRemove ==
  \/ \E t \in {"t1"} : GetOrCreateExisting(t)
  \/ \E t \in {"t1"} : CallsLeft /\ Untouched(t) /\ GetOrCreateAwait(t)
  \/ \E t \in {"t1"} : GetOrCreateResume(t, "api")
  \/ \E t \in {"t1"}, at \in {"load", "factory"} : GetOrCreateThrow(t, "api", at)
  \/ \E h \in Sockets : \E u \in {v \in Updates(h) : v.qr = NoQr /\ ~isRestartRequired(v)} :
       ConnectionUpdate(h, u)
  \/ \E h \in Sockets : CredsUpdate(h)
  \/ \E t \in {"t1"}, del \in BOOLEAN : RemoveCall(t, del)
  \/ \E r \in removing, outcome \in LogoutOutcomes : RemoveSettle(r, outcome)
  \/ \E r \in removing, rmOk \in BOOLEAN : RemoveRmSettle(r, rmOk)

SpecRemove == Init /\ [][NextRemove]_vars

\* Inactivity sweep: two tenants age, are used, and are swept; the swept
\* sockets answer with close updates.
NextSweep ==
  \/ \E t \in Tenants : CallsLeft /\ Untouched(t) /\ GetOrCreateAwait(t)
  \/ \E t \in Tenants : GetOrCreateResume(t, "api")
  \/ \E t \in Tenants : GetBaileysSocket(t)
  \/ \E h \in Sockets : \E u \in {v \in Updates(h) : v.connection = "close" /\ ~isRestartRequired(v)} :
       ConnectionUpdate(h, u)
  \/ \E r \in removing, outcome \in LogoutOutcomes : RemoveSettle(r, outcome)
  \/ \E r \in removing, rmOk \in BOOLEAN : RemoveRmSettle(r, rmOk)
  \/ \E T \in 0..MaxIdle : CleanupInactive(T)
  \/ \E outcome \in LogoutOutcomes : SweepSettle(outcome)
  \/ Tick

SpecSweep == Init /\ [][NextSweep]_vars

\* Push transport: clients connect and go away, events are sent to any id.
NextMcp ==
  \/ \E path \in Tenants \cup {"none"} : Connect(path)
  \/ \E id \in Tenants : SocketDestroyed(id)
  \/ \E id \in Tenants : ReqClose(id)
  \/ \E id \in Tenants : ReqError(id)
  \/ \E id \in Tenants : Heartbeat(id)
  \/ \E id \in Tenants : RemoveSession(id)
  \/ \E id \in Tenants, eventType \in EventTypes, writeOk \in BOOLEAN :
       SendEvent(id, eventType, writeOk)

SpecMcp == Init /\ [][NextMcp]_vars

\* Client actions of the first client: every body and action the action
\* server can be sent, the sends the handler waits for, and the client's
\* protocol session, which POST /mcp/session/init creates for a registered id
\* only (index.ts:127-133).
DefaultAction == [actionType |-> "", payload |-> CHOOSE p \in Payloads : p.falsy,
                  requestId |-> "undefined"]

\* the payload varies in the fields the handler of the action's type reads
Relevant(a) ==
  CASE a.actionType = "SEND_TEXT_MESSAGE" -> a.payload.mediaSource = "absent"
    [] a.actionType = "SEND_IMAGE_MESSAGE" -> a.payload.text = "absent"
    [] OTHER -> a.payload.text = "absent" /\ a.payload.mediaSource = "absent"
                  /\ a.payload.recipientJid # "nojid"

Requests == {r \in [body : Bodies, action : McpClientActions] :
               IF r.body = "json" THEN Relevant(r.action) ELSE r.action = DefaultAction}

NextApi ==
  \/ Connect("none")
  \/ \E id \in Tenants : SocketDestroyed(id)
  \/ \E id \in Tenants : ReqClose(id)
  \/ \E t \in {"t1"} :
       /\ mcpSessions[t].id # "none"
       /\ CallsLeft /\ Untouched(t) /\ GetOrCreateAwait(t)
  \/ \E t \in {"t1"} : GetOrCreateResume(t, "api")
  \/ \E k \in 1..MaxActions, id \in {"t1"}, r \in Requests :
       PostAction(k, id, r.body, r.action)
  \/ \E k \in 1..MaxActions, outcome \in SendOutcomes : TextSendSettle(k, outcome)
  \/ \E k \in 1..MaxActions, prepared \in BOOLEAN : PrepareSettle(k, prepared)
  \/ \E k \in 1..MaxActions, outcome \in SendOutcomes : ImageSendSettle(k, outcome)

SpecApi == Init /\ [][NextApi]_vars

\* Initialization and text sends of the first client: its protocol session is
\* created on request and the creation may fail; well-formed text actions
\* reach sendTextMessage with or without a map entry and with either kind of
\* recipient id.
TextRequests ==
  {r \in Requests : /\ r.body = "json"
                    /\ r.action.actionType = "SEND_TEXT_MESSAGE"
                    /\ r.action.requestId = "req-1"
                    /\ TextPayloadOk(r.action.payload)}

NextSend ==
  \/ Connect("none")
  \/ \E id \in Tenants : SocketDestroyed(id)
  \/ \E id \in Tenants : ReqClose(id)
  \/ \E t \in {"t1"} :
       /\ mcpSessions[t].id # "none"
       /\ CallsLeft /\ Untouched(t) /\ GetOrCreateAwait(t)
  \/ \E t \in {"t1"} : GetOrCreateResume(t, "api")
  \/ \E t \in {"t1"}, at \in {"load", "factory"} : GetOrCreateThrow(t, "api", at)
  \/ \E k \in 1..MaxActions, id \in {"t1"}, r \in TextRequests :
       PostAction(k, id, r.body, r.action)
  \/ \E k \in 1..MaxActions, outcome \in SendOutcomes : TextSendSettle(k, outcome)

SpecSend == Init /\ [][NextSend]_vars

\* Staleness sweep of the registry: clients connect, are sent events (the
\* lookup refreshes lastSeen), receive keep-alive frames and go away while
\* the clock advances; connection.end() may throw for one session of a sweep.
NextStale ==
  \/ Connect("none")
  \/ \E id \in Tenants : SocketDestroyed(id)
  \/ \E id \in Tenants : ReqClose(id)
  \/ \E id \in Tenants : Heartbeat(id)
  \/ \E id \in Tenants, writeOk \in BOOLEAN : SendEvent(id, "baileys_qr_update", writeOk)
  \/ Tick
  \/ \E T \in 0..MaxIdle, failing \in Tenants \cup {"none"} : CleanupStaleSessions(T, failing)

SpecStale == Init /\ [][NextStale]_vars

\* Routing of events: two clients are connected while the connection of one
\* tenant delivers connection updates and message batches and text sends of
\* either client are answered.
NextRoute ==
  \/ Connect("none")
  \/ \E t \in {"t1"} : Constructed = {} /\ Untouched(t) /\ GetOrCreateAwait(t)
  \/ \E t \in {"t1"} : GetOrCreateResume(t, "api")
  \/ \E h \in Sockets :
       \E u \in {v \in Updates(h) : v.qr # "Q2" /\ v.connection # "close"} :
         ConnectionUpdate(h, u)
  \/ \E h \in Sockets, batch \in {b \in Batches : Len(b) = 1 /\ b[1].id = "m1"} :
       MessagesUpsert(h, batch)
  \/ \E k \in {1}, id \in Tenants, r \in TextRequests :
       PostAction(k, id, r.body, r.action)
  \/ \E k \in {1}, outcome \in SendOutcomes : TextSendSettle(k, outcome)

SpecRoute == Init /\ [][NextRoute]_vars

\* Reconnects: clients connect, also naming an id in the path, while the
\* tenant of the first id has a protocol connection, and events are sent to
\* either id.
NextReconnect ==
  \/ \E path \in Tenants \cup {"none"} : Connect(path)
  \/ \E id \in Tenants : SocketDestroyed(id)
  \/ \E t \in {"t1"} :
       /\ mcpSessions[t].id # "none"
       /\ Constructed = {} /\ Untouched(t) /\ GetOrCreateAwait(t)
  \/ \E t \in {"t1"} : GetOrCreateResume(t, "api")
  \/ \E id \in Tenants, writeOk \in BOOLEAN : SendEvent(id, "baileys_qr_update", writeOk)

SpecReconnect == Init /\ [][NextReconnect]_vars

\* Use of one tenant's connections: lookups, text sends and inbound message
\* batches while the clock advances and the connections issue a QR code, open
\* and are duplicated by racing creations.
NextUse ==
  \/ \E t \in {"t1"} : CallsLeft /\ GetOrCreateAwait(t)
  \/ \E t \in {"t1"} : GetOrCreateResume(t, "api")
  \/ \E h \in Sockets :
       \E u \in {v \in Updates(h) : v.connection # "close" /\ v.qr # "Q2"} :
         ConnectionUpdate(h, u)
  \/ \E t \in {"t1"} : GetBaileysSocket(t)
  \/ now < MaxIdle /\ Tick
  \/ \E k \in {1}, id \in {"t1"}, r \in TextRequests :
       PostAction(k, id, r.body, r.action)
  \/ \E k \in {1}, outcome \in SendOutcomes : TextSendSettle(k, outcome)
  \/ \E h \in Sockets, batch \in {b \in Batches : Len(b) = 1 /\ b[1].id = "m1"} : MessagesUpsert(h, batch)

SpecUse == Init /\ [][NextUse]_vars

\* message ids are unique: the messages of one batch are named m1, m2, ... in
\* the order of the array
IdOfPosition == <<"m1", "m2", "m3">>
DistinctIds(b) == \A i \in 1..Len(b) : b[i].id = IdOfPosition[i]

\* One connection of tenant t1 receiving every message batch, with or without
\* a client listening.
NextBatch ==
  \/ ~connection["t1"].used /\ Connect("none")
  \/ \E id \in {"t1"} : SocketDestroyed(id)
  \/ \E t \in {"t1"} : Constructed = {} /\ Untouched(t) /\ GetOrCreateAwait(t)
  \/ \E t \in {"t1"} : GetOrCreateResume(t, "api")
  \/ \E h \in Sockets :
       \E u \in {v \in Updates(h) : v.connection = "open"} : ConnectionUpdate(h, u)
  \/ \E h \in Sockets, batch \in {b \in Batches : DistinctIds(b)} :
       MessagesUpsert(h, batch)

SpecBatch == Init /\ [][NextBatch]_vars

\* The adapter's message handler fed every raw message shape, with a client
\* that may or may not be listening.
NextMsg ==
  \/ ~connection["t1"].used /\ Connect("none")
  \/ \E id \in Tenants : SocketDestroyed(id)
  \/ \E id \in Tenants : ReqClose(id)
  \/ \E id \in {"t1"}, m \in MessageInputs :
       Len(wire[id]) <= 1 /\ HandleNewMessage(id, m)
  \/ \E outcome \in MediaOutcomes : MediaSettle(outcome)

SpecMsg == Init /\ [][NextMsg]_vars

\* ------------------------------------------------------------------ properties
LiveSocketsOf(t) == {h \in SocketsOf(t) : Live(h)}

\* C1: in every reachable state each tenant has at most one live connection
\* (constructed, not logged out, not terminated).
C1_OneLivePerTenant == \A t \in Tenants : Cardinality(LiveSocketsOf(t)) <= 1

\* the handle the last completed getOrCreate returned for t is still t's entry
\* and its connection has not reached OPEN
SecondCall(t) ==
  /\ lastRet[t] # NoSock
  /\ baileysSessions[t] = lastRet[t]
  /\ ~WsOpen(lastRet[t])

ClosedSocketsOf(t) == {h \in SocketsOf(t) : sock[h].ws = "closed"}

\* C3: once a tenant's first connection and its MAX_RETRIES re-created
\* connections have all closed restart-required without reaching OPEN, no
\* restart timer is armed and the tenant is absent from the map.
C3_RetriesExhausted ==
  \A t \in Tenants :
    Cardinality(ClosedSocketsOf(t)) = MAX_RETRIES + 1
      => timers[t] = 0 /\ ~HasSession(t)

\* the removal call r is over after this step
RemovalEnds(r) ==
  /\ r \in removing
  /\ ~\E q \in removing' : q.id = r.id /\ q.h = r.h /\ q.origin = r.origin

\* C4: when the removal started by a terminal-logout close is over, the tenant
\* has no map entry and its credential directory is absent.
C4_LogoutCloseRemovesEntryAndCredentials ==
  [][\A r \in removing :
       (r.origin = "close" /\ RemovalEnds(r))
         => baileysSessions'[r.id] = NoSock /\ authDir'[r.id] = "absent"]_vars

\* the replay C5 asks for: the last qr the entry's connection issued, unless
\* the connection reached OPEN
ExpectedReplay(h) ==
  IF sock[h].issued # NoQr /\ ~WsOpen(h) THEN <<<<"onQR", sock[h].issued>>>> ELSE <<>>

\* C5: getOrCreate on an existing entry replays exactly the last qr value the
\* entry's connection issued before OPEN, and nothing once it reached OPEN.
C5_ReplaysLastQr ==
  [][\A t \in Tenants :
       GetOrCreateExisting(t) => obs'.cb = ExpectedReplay(baileysSessions[t])]_vars

\* C6: every entry the sweep deletes has been inactive for more than T at the
\* sweep time.
C6_SweepDeletesOnlyInactive ==
  [][(sweep.pc = "await" /\ HasSession(sweep.id)
        /\ \E o \in LogoutOutcomes : SweepSettle(o) /\ ~RemoveAborts(o))
       => Inactive(session[baileysSessions[sweep.id]].lastActivityTime,
                   sweep.now0, sweep.T)]_vars

\* C7: when a removal of the sweep ends, by success or by failure, and an idle
\* entry lies ahead, the sweep goes on to remove it.
C7_SweepContinuesPastFailure ==
  [][((\E o \in LogoutOutcomes : SweepSettle(o))
        /\ \E i \in (sweep.pos + 1)..Len(mapOrder) :
             /\ mapOrder[i] # sweep.id
             /\ Inactive(session[baileysSessions[mapOrder[i]]].lastActivityTime,
                         sweep.now0, sweep.T))
       => sweep'.pc = "await"]_vars

\* C8: when a removal call for an existing entry is over, the tenant is absent
\* from the map.
C8_RemoveAlwaysDeletes ==
  [][\A r \in removing :
       (r.origin = "api" /\ RemovalEnds(r)) => baileysSessions'[r.id] = NoSock]_vars

\* C9: no credential directory is deleted by a removal the sweep brought about.
C9_SweepKeepsCredentials ==
  [][\A r \in removing :
       (r.origin = "sweepClose" /\ RemoveRmSettle(r, TRUE)) => authDir'[r.id] # "absent"]_vars

Registered(id) == mcpSessions[id].id # "none"
TransportOpen(id) == ~connection[id].closed /\ ~connection[id].destroyed

\* C10: sendEventToClient returns a boolean, true exactly when the id is
\* registered, its transport is open and the write did not throw; the frame
\* reaches the transport exactly when it returns true.
C10_SendResult ==
  [][\A id \in Tenants, e \in EventTypes, w \in BOOLEAN :
       SendEvent(id, e, w)
         => /\ obs'.ret \in BOOLEAN
            /\ obs'.ret = (Registered(id) /\ TransportOpen(id) /\ w)
            /\ wire'[id] = IF obs'.ret THEN Append(wire[id], Frame(e, "data"))
                           ELSE wire[id]]_vars

C10_Witness ==
  \E id \in Tenants :
    /\ obs.op = "send" /\ obs.ret = TRUE
    /\ Registered(id) /\ TransportOpen(id)
    /\ wire[id] # <<>> /\ wire[id][Len(wire[id])] \in {Frame(e, "data") : e \in EventTypes}

\* the events of a turn hold a single terminal event, mcp_action_success or
\* mcp_action_error, echoing the action's actionType and requestId
OneTerminal(events, a) ==
  /\ Len(Terminals(events)) = 1
  /\ Terminals(events)[1].data._originalActionType = a.actionType
  /\ Terminals(events)[1].data._requestId = a.requestId
  /\ "message" \in DOMAIN Terminals(events)[1].data

\* the turn answered the request of slot k
Answered(k) == actions[k]'.st = "free"

\* C11: every action submitted to the action server is given exactly one
\* terminal event (mcp_action_success or mcp_action_error) echoing its
\* actionType and requestId, sent in the turn that answers the request; the
\* turns in which the action waits for a send emit no terminal event.
C11_OneTerminalEventPerAction ==
  [][/\ \A k \in 1..MaxActions, id \in Tenants, r \in Requests :
          PostAction(k, id, r.body, r.action)
            => IF Answered(k) THEN OneTerminal(obs'.cb, r.action)
               ELSE Terminals(obs'.cb) = <<>>
     /\ \A k \in 1..MaxActions :
          (\/ \E outcome \in SendOutcomes : TextSendSettle(k, outcome)
           \/ \E prepared \in BOOLEAN : PrepareSettle(k, prepared)
           \/ \E outcome \in SendOutcomes : ImageSendSettle(k, outcome))
            => IF Answered(k) THEN OneTerminal(obs'.cb, ActionOf(k))
               ELSE Terminals(obs'.cb) = <<>>]_vars

\* C12: when credential loading or socket construction throws in a creation
\* started through initializeBaileysForMcpSession, the wrapper rethrows to its
\* caller and hands a baileys_error flagged isInitializationError to the
\* emitter, which writes it to the tenant's transport whenever a push session
\* with that id is registered and its transport takes the write.
C12_InitFailurePropagates ==
  [][\A t \in Tenants, at \in {"load", "factory"} :
       GetOrCreateThrow(t, "api", at)
         => /\ obs'.op = "initThrew"
            /\ obs'.cb = <<InitErrorFrame>>
            /\ obs'.ret => Registered(t) /\ TransportOpen(t)
            /\ wire' = IF obs'.ret THEN [wire EXCEPT ![t] = Append(@, InitErrorFrame)]
                       ELSE wire
            /\ baileysSessions' = baileysSessions]_vars

C12_Witness ==
  /\ obs.op = "initThrew"
  /\ obs.ret
  /\ \E t \in Tenants :
       /\ Registered(t)
       /\ ~HasSession(t)
       /\ Len(wire[t]) >= 2
       /\ wire[t][Len(wire[t])] = InitErrorFrame

\* the frames of the events the emitter accepted, given each call's result
WrittenFrames(events, sent) ==
  LET frames == [i \in 1..Len(events) |-> Frame(events[i].type, events[i].data)]
      F[i \in 0..Len(events)] ==
        IF i = 0 THEN <<>> ELSE IF sent[i] THEN Append(F[i - 1], frames[i]) ELSE F[i - 1]
  IN F[Len(events)]

\* sendTextMessage failed in this turn: it returned undefined to the handler,
\* which went on to answer the request; one baileys_error was handed to the
\* emitter and reached at most the caller's transport; the tenant map is as
\* it was
TextSendFailed(id) ==
  /\ obs'.ret.sent = "undefined"
  /\ obs'.ret.http = 202
  /\ Len(SelectSeq(obs'.cb, LAMBDA e : e.type = "baileys_error")) = 1
  /\ obs'.cb[1] = BaileysError
  /\ \E sent \in [1..Len(obs'.cb) -> BOOLEAN] :
       /\ wire' = [wire EXCEPT ![id] = @ \o WrittenFrames(obs'.cb, sent)]
       /\ (\E i \in 1..Len(obs'.cb) : sent[i]) => Registered(id) /\ TransportOpen(id)
  /\ baileysSessions' = baileysSessions
  /\ mapOrder' = mapOrder

\* C13: a text send for a tenant without a map entry, to a recipient id
\* without '@', or whose socket.sendMessage rejects returns undefined to its
\* caller and pushes a baileys_error; it does not throw and stores no map entry.
C13_TextSendFailureIsReported ==
  [][/\ \A k \in 1..MaxActions, id \in Tenants, r \in TextRequests :
          /\ PostAction(k, id, r.body, r.action)
          /\ ~HasSession(id) \/ r.action.payload.recipientJid # "jid@s"
          => TextSendFailed(id)
     /\ \A k \in 1..MaxActions :
          TextSendSettle(k, "rejects") => TextSendFailed(actions[k].id)]_vars

C13_Witness ==
  /\ obs.op = "action"
  /\ obs.ret.sent = "undefined"
  /\ Len(obs.cb) = 2
  /\ \E id \in Tenants :
       /\ Registered(id)
       /\ HasSession(id)
       /\ Len(wire[id]) = 3
       /\ wire[id][2] = Frame(BaileysError.type, BaileysError.data)
       /\ wire[id][3][2] = "mcp_action_error"

\* C14: the registry binds an id to one transport, the one created with it;
\* a connect that names a registered id ends that id's transport and deletes
\* its entry, and the entry of the new transport is stored under an id that
\* had no transport, so no id is ever bound to two transports.
C14_ReconnectTearsDownFirst ==
  [][\A path \in Tenants :
       Connect(path) /\ Registered(path)
         => /\ ~Registered(path)'
            /\ connection'[path].ended \/ connection'[path].closed
            /\ obs'.ret # path
            /\ ~connection[obs'.ret].used /\ ~Registered(obs'.ret)
            /\ mcpSessions'[obs'.ret].id = obs'.ret
            /\ ~connection'[obs'.ret].closed /\ ~connection'[obs'.ret].ended
            /\ \A id \in Tenants \ {path, obs'.ret} :
                 mcpSessions'[id] = mcpSessions[id] /\ connection'[id] = connection[id]]_vars

C14_Witness ==
  /\ obs.op = "connect"
  /\ obs.cb # <<"none">>
  /\ obs.cb[1] # obs.ret
  /\ connection[obs.cb[1]].used /\ connection[obs.cb[1]].ended
  /\ ~connection[obs.cb[1]].closed
  /\ ~Registered(obs.cb[1])
  /\ Registered(obs.ret)

\* C15: a call of sendEventToClient appends its own frame to the transport of
\* the id it was given when it returns true and writes nothing when it
\* returns false; nothing is kept for later: a connect writes only
\* session_established to the transport it registers, a heartbeat only its
\* comment to its own transport, and no other turn writes a frame.
C15_AtMostOnceNoQueue ==
  [][/\ \A id \in Tenants, e \in EventTypes, w \in BOOLEAN :
          SendEvent(id, e, w)
            => wire' = IF obs'.ret THEN [wire EXCEPT ![id] = Append(@, Frame(e, "data"))]
                       ELSE wire
     /\ \A path \in Tenants \cup {"none"} :
          Connect(path)
            => wire' = [wire EXCEPT ![obs'.ret] = <<Frame("session_established", obs'.ret)>>]
     /\ \A id \in Tenants :
          Heartbeat(id) => wire' \in {wire, [wire EXCEPT ![id] = Append(@, HeartbeatFrame)]}
     /\ obs'.op \notin {"send", "connect", "heartbeat"} => wire' = wire]_vars

\* a send to a registered id was refused and left the transport as the
\* connect wrote it
C15_Witness ==
  /\ obs.op = "send"
  /\ obs.ret = FALSE
  /\ obs.cb[2] = "baileys_qr_update"
  /\ Registered(obs.cb[1])
  /\ ~TransportOpen(obs.cb[1])
  /\ wire[obs.cb[1]] = <<Frame("session_established", obs.cb[1])>>

\* the type tags of the envelope
Tags == {"text", "media", "reaction", "location", "contact", "contacts_array", "unknown"}

\* C16: the envelope forwarded for a raw message carries one tag of Tags, the
\* one of the first matching branch: a message that takes the media branch is
\* tagged media, any other message is tagged by its first populated sub-field,
\* and an unknown envelope lists the sub-fields that were present.
C16_ExactlyOneTagFirstMatch ==
  [][/\ \A m \in MessageInputs :
          HandleNewMessage("t1", m) /\ ~TakesMediaBranch(m)
            => /\ obs'.cb[1].data.type \in Tags \ {"media"}
               /\ obs'.cb[1].data.type = PayloadOf(m).type
               /\ obs'.cb[1].data.type = "unknown"
                    => obs'.cb[1].data.keys = IF m.present THEN m.keys ELSE {"null"}
     /\ \A outcome \in MediaOutcomes :
          MediaSettle(outcome) => obs'.cb[1].data.type = "media"]_vars

\* the baileys_new_message frames written to the transport of id
MessageFrames(id) ==
  {i \in 1..Len(wire[id]) :
     Len(wire[id][i]) = 6 /\ wire[id][i][2] = "baileys_new_message"}

\* C17: no frame on any push transport carries the server-side file path of a
\* media message.
C17_NoServerFilePathOnWire ==
  \A id \in Tenants :
    \A i \in MessageFrames(id) : "_serverFilePath" \notin wire[id][i][5].media

\* C18: a transport that was registered has session_established with its own
\* id as its first frame, whatever was written to it since, and an id for
\* which no transport was registered has no frame at all.
C18_SessionEstablishedFirst ==
  \A id \in Tenants :
    IF connection[id].used
    THEN wire[id] # <<>> /\ wire[id][1] = Frame("session_established", id)
    ELSE wire[id] = <<>>

\* a transport that received a keep-alive or an event after its first frame
C18_Witness ==
  \E id \in Tenants :
    /\ connection[id].used
    /\ Len(wire[id]) >= 2
    /\ wire[id][1] = Frame("session_established", id)
    /\ wire[id][2] \in {HeartbeatFrame} \cup {Frame(e, "data") : e \in EventTypes}

\* C20: removeSession(id) on a registered id deletes the entry and ends the
\* transport unless it is already closed; on an id without an entry (a second
\* call, or an id that never existed) it changes neither the registry nor any
\* transport; it returns normally in both cases and touches no other id.
C20_RemoveSessionIdempotent ==
  [][\A id \in Tenants :
       RemoveSession(id)
         => /\ ~Registered(id)'
            /\ obs'.op = "removeSession" /\ obs'.ret = id
            /\ Registered(id)
                 => /\ connection'[id].ended \/ connection'[id].closed
                    /\ connection[id].closed => connection'[id] = connection[id]
            /\ ~Registered(id) => mcpSessions' = mcpSessions /\ connection' = connection
            /\ \A other \in Tenants \ {id} :
                 mcpSessions'[other] = mcpSessions[other]
                   /\ connection'[other] = connection[other]]_vars

\* removeSession was called on an id whose entry an earlier removal had
\* deleted and whose transport that removal had ended
C20_Witness ==
  /\ obs.op = "removeSession"
  /\ obs.cb = <<FALSE>>
  /\ connection[obs.ret].used
  /\ connection[obs.ret].ended
  /\ ~connection[obs.ret].closed
  /\ ~Registered(obs.ret)

\* C19: over all entries ever created, two entries of the same tenant have the
\* same stateDir (also across re-creations), and two entries of different
\* tenants have different ones.
C19_StateDirPerTenant ==
  \A h1, h2 \in Constructed :
    (session[h1].mcpSessionId = session[h2].mcpSessionId)
      <=> (session[h1].stateDir = session[h2].stateDir)

\* a tenant whose entry was created twice, next to an entry of another tenant
C19_Witness ==
  \E h1, h2, h3 \in Constructed :
    /\ h1 # h2
    /\ session[h1].mcpSessionId = session[h2].mcpSessionId
    /\ session[h3].mcpSessionId # session[h1].mcpSessionId
    /\ baileysSessions[session[h3].mcpSessionId] = h3
    /\ baileysSessions[session[h1].mcpSessionId] \in {h1, h2}

C22_RetryCountDiscipline ==
  [][/\ \A g \in Constructed' : session'[g].retryCount \in 0..MAX_RETRIES
     /\ obs'.op = "update"
          => \A u \in Updates(obs'.ret) :
            ConnectionUpdate(obs'.ret, u)
              => LET t == session[obs'.ret].mcpSessionId
                     cur == baileysSessions[t]
                 IN \A g \in Constructed :
                      session'[g].retryCount =
                        IF g = cur /\ RestartClose(u) /\ session[g].retryCount < MAX_RETRIES
                        THEN session[g].retryCount + 1
                        ELSE IF g = cur /\ u.connection = "open" THEN 0
                        ELSE session[g].retryCount
     /\ obs'.op # "update"
          => \A g \in Constructed : session'[g].retryCount = session[g].retryCount]_vars

\* the entry's retryCount is MAX_RETRIES and every connection of the tenant,
\* one more than MAX_RETRIES, has closed
C22_Witness ==
  /\ obs.op = "update"
  /\ HasSession("t1")
  /\ session[baileysSessions["t1"]].retryCount = MAX_RETRIES
  /\ Cardinality({h \in SocketsOf("t1") : sock[h].ws = "closed"}) > MAX_RETRIES
  /\ timers["t1"] = MAX_RETRIES

\* the entry of t before the timer's re-creation: the last connection built
LastSocketOf(t) == CHOOSE h \in SocketsOf(t) : \A g \in SocketsOf(t) : g <= h

ArgsOf(h) == [eventCallbacks |-> session[h].eventCallbacks, options |-> session[h].socketOptions]

\* C23: a restart-required close processed below MAX_RETRIES leaves the entry
\* in the map with retryCount one higher and arms one timer; while a timer is
\* armed the entry and its retryCount stay; the timer's turn deletes the entry
\* and its getOrCreate call, finding none, starts a creation for the same
\* tenant with the callbacks and the stored options of the entry; the entry
\* that creation stores has these callbacks and options.
C23_RestartKeepsEntryUntilTimer ==
  [][\A t \in {"t1"} :
       /\ obs'.op = "update" /\ timers'[t] # timers[t]
            => /\ HasSession(t) /\ baileysSessions' = baileysSessions
               /\ sock'[obs'.ret].ws = "closed"
               /\ session[baileysSessions[t]].retryCount < MAX_RETRIES
               /\ session'[baileysSessions[t]].retryCount
                    = session[baileysSessions[t]].retryCount + 1
               /\ timers'[t] = timers[t] + 1
               /\ callArgs'[t].armed = Append(callArgs[t].armed, ArgsOf(baileysSessions[t]))
       /\ obs'.op = "update"
            => \A u \in Updates(obs'.ret) :
                 ConnectionUpdate(obs'.ret, u) /\ RestartClose(u)
                   /\ HasSession(t) /\ session[baileysSessions[t]].retryCount < MAX_RETRIES
                   => timers'[t] = timers[t] + 1
       /\ timers[t] > 0 /\ ~TimerFires(t)
            => /\ HasSession(t) /\ baileysSessions' = baileysSessions
               /\ session'[baileysSessions[t]].retryCount
                    = session[baileysSessions[t]].retryCount
               /\ callArgs'[t].armed = callArgs[t].armed
       /\ TimerFires(t)
            => /\ HasSession(t) /\ ~HasSession(t)'
               /\ creating'[t].timer = creating[t].timer + 1
               /\ callArgs'[t].timer =
                    [callArgs[t].timer EXCEPT ![ArgsOf(baileysSessions[t])] = @ + 1]
               /\ obs'.op # "existing"
       /\ GetOrCreateResume(t, "timer")
            => /\ session'[obs'.ret].eventCallbacks = session[LastSocketOf(t)].eventCallbacks
               /\ session'[obs'.ret].socketOptions = session[LastSocketOf(t)].socketOptions
               /\ session'[obs'.ret].mcpSessionId = t
               /\ baileysSessions'[t] = obs'.ret]_vars

\* the timer's creation stored an entry carrying the options and callbacks
\* the first call gave
C23_Witness ==
  /\ obs.op = "created"
  /\ Cardinality(SocketsOf("t1")) >= 2
  /\ baileysSessions["t1"] = obs.ret
  /\ session[obs.ret].socketOptions = "options1"
  /\ session[obs.ret].eventCallbacks = "callbacks2"
  /\ \A h \in SocketsOf("t1") \ {obs.ret} : sock[h].ws = "closed"

\* C24: a restart-required close processed while the entry's retryCount is
\* MAX_RETRIES arms no timer, constructs no connection, leaves retryCount as
\* it is, and leaves the tenant without an entry in the map.
C24_MaxRetriesLeavesTenantAbsent ==
  [][obs'.op = "update"
       => \A u \in Updates(obs'.ret) :
            LET t == session[obs'.ret].mcpSessionId
            IN ConnectionUpdate(obs'.ret, u) /\ RestartClose(u) /\ HasSession(t)
                 /\ session[baileysSessions[t]].retryCount >= MAX_RETRIES
                 => /\ timers' = timers
                    /\ creating' = creating
                    /\ Constructed' = Constructed
                    /\ session'[baileysSessions[t]].retryCount
                         = session[baileysSessions[t]].retryCount
                    /\ baileysSessions'[t] = NoSock]_vars

\* C25: the number of armed timers of a tenant goes down only by a timer
\* firing; a firing timer takes one timer away, leaves the tenant without an
\* entry and starts one creation, whatever the map held in the meantime (no
\* entry after a removal or a sweep, an entry whose connection is open); and
\* every armed timer fires.
C25_TimerNeverCancelled ==
  /\ [][\A t \in {"t1"} :
          /\ timers'[t] < timers[t] => TimerFires(t)
          /\ TimerFires(t)
               => /\ timers'[t] = timers[t] - 1
                  /\ ~HasSession(t)'
                  /\ creating'[t].timer = creating[t].timer + 1]_vars
  /\ (timers["t1"] > 0 ~> timers["t1"] = 0)

\* a timer fired while the map held no entry for the tenant, after a removal
\* or a sweep, and its creation is under way
C25_Witness ==
  /\ obs.op = "timer"
  /\ creating["t1"].timer > 0
  /\ ~HasSession("t1")
  /\ \E h \in SocketsOf("t1") : sock[h].life \in {"logoutCalled", "loggedOut"}
  /\ \A h \in SocketsOf("t1") : sock[h].ws # "open"

\* C26: a terminal-logout close invokes onDisconnected while the entry is
\* still in the map and arms no timer, and once the removal it starts has
\* deleted the credential directory (absent from then until the next
\* creation) no creation that a timer started constructs a connection for
\* the tenant.
C26_NoReconnectAfterLogout ==
  [][/\ obs'.op = "update"
          => \A u \in Updates(obs'.ret) :
               ConnectionUpdate(obs'.ret, u) /\ isLoggedOut(u)
                 => /\ timers' = timers
                    /\ baileysSessions' = baileysSessions
                    /\ obs'.cb = <<<<"onDisconnected", "undefined">>>>
     /\ \A t \in {"t1"} :
          GetOrCreateResume(t, "timer") /\ creating[t].api = 0 => authDir[t] # "absent"]_vars

\* C27: every close update invokes onDisconnected exactly once, in a turn
\* that leaves the map as it is, and has the effect of exactly one policy: a
\* close with the logout status starts the removal with credential deletion
\* and arms no timer, also when it carries the restart-required message; a
\* restart-required close starts no removal and arms a timer if the entry may
\* retry; any other close starts no removal and arms no timer.
C27_ExactlyOnePolicy ==
  [][obs'.op = "update"
       => \A u \in Updates(obs'.ret) :
            LET h == obs'.ret
                t == session[h].mcpSessionId
            IN ConnectionUpdate(h, u) /\ u.connection = "close"
                 => /\ obs'.cb = <<<<"onDisconnected", "undefined">>>>
                    /\ baileysSessions' = baileysSessions
                    /\ LogoutPolicy(u)
                         => /\ timers' = timers
                            /\ removing' = RemoveHeadSet(t, TRUE, CloseOrigin(h))
                            /\ HasSession(t)
                                 => sock'[baileysSessions[t]].life # "live"
                    /\ RestartPolicy(u)
                         => /\ removing' = removing
                            /\ timers'[t] = IF HasSession(t)
                                               /\ session[baileysSessions[t]].retryCount
                                                    < MAX_RETRIES
                                            THEN timers[t] + 1 ELSE timers[t]
                    /\ OtherPolicy(u)
                         => /\ removing' = removing
                            /\ timers' = timers]_vars

\* a close started the removal of the entry of the connection that closed
C27_Witness ==
  /\ obs.op = "update"
  /\ obs.cb = <<<<"onDisconnected", "undefined">>>>
  /\ sock[obs.ret].ws = "closed"
  /\ timers["t1"] = 0
  /\ \E r \in removing : r.del /\ r.h = obs.ret /\ r.pc = "logout"

\* C28: a close that is neither terminal logout nor restart-required invokes
\* onDisconnected and nothing else: the map, every entry's retryCount, qrCode
\* and socket, the credential directories, the timers, the creations and the
\* removals in progress are as before, and no connection is constructed; only
\* the handler's lastActivityTime stamp on its own session is written.
C28_OtherCloseOnlyNotifies ==
  [][obs'.op = "update"
       => \A u \in Updates(obs'.ret) :
            LET h == obs'.ret
            IN ConnectionUpdate(h, u) /\ u.connection = "close" /\ OtherPolicy(u)
                 => /\ obs'.cb = <<<<"onDisconnected", "undefined">>>>
                    /\ baileysSessions' = baileysSessions
                    /\ session' = [session EXCEPT ![h].lastActivityTime = now]
                    /\ authDir' = authDir
                    /\ timers' = timers
                    /\ callArgs' = callArgs
                    /\ creating' = creating
                    /\ removing' = removing
                    /\ \A k \in Sockets \ {h} : sock'[k] = sock[k]
                    /\ sock'[h].life = sock[h].life]_vars

\* the connection of an entry with a pending QR code closed for another cause:
\* the entry is still in the map with its QR code, no retry counted, no timer
C28_Witness ==
  /\ obs.op = "update"
  /\ obs.cb = <<<<"onDisconnected", "undefined">>>>
  /\ sock[obs.ret].ws = "closed"
  /\ \E t \in Tenants : /\ baileysSessions[t] = obs.ret
                        /\ timers[t] = 0
  /\ session[obs.ret].retryCount = 0
  /\ session[obs.ret].qrCode # NoQr

\* C29: the qrCode of a tenant's entry is the value of the last QR-bearing
\* update its connection delivered since that connection was last open, and
\* empty if there was none.
C29_PendingQrIsLastIssued ==
  \A t \in Tenants :
    HasSession(t) => session[baileysSessions[t]].qrCode = sock[baileysSessions[t]].issued

\* the subsequences of s, in the order of s
RECURSIVE Subsequences(_)
Subsequences(s) ==
  IF s = <<>> THEN {<<>>}
  ELSE LET r == Subsequences(Tail(s))
       IN r \cup {<<Head(s)>> \o x : x \in r}

\* the events of one update in the order the handler tests them: qr, then
\* close or open
EventsOf(u) ==
  (IF u.qr # NoQr THEN <<<<"onQR", u.qr>>>> ELSE <<>>)
  \o (IF u.connection = "close" THEN <<<<"onDisconnected", "undefined">>>>
      ELSE IF u.connection = "open" THEN <<<<"onConnected">>>>
      ELSE <<>>)

C31_RemoveWithoutEntryIsNoOp ==
  [][\A t \in Tenants, del \in BOOLEAN :
       RemoveCall(t, del) /\ ~HasSession(t)
         => /\ sock' = sock
            /\ removing' = removing
            /\ baileysSessions' = baileysSessions
            /\ mapOrder' = mapOrder
            /\ session' = session
            /\ authDir' = authDir
            /\ creating' = creating
            /\ timers' = timers]_vars

\* a removal with credential deletion was called for a tenant whose entry
\* had been removed while its credential directory was kept
C31_Witness ==
  /\ obs.op = "remove"
  /\ obs.cb = <<TRUE, FALSE>>
  /\ SocketsOf(obs.ret) # {}
  /\ authDir[obs.ret] # "absent"

\* the step writes nothing of the session manager but, where stamped holds,
\* the lastActivityTime of the entry the map holds for t
OnlyStamps(t, stamped) ==
  /\ baileysSessions' = baileysSessions
  /\ mapOrder' = mapOrder
  /\ \A h \in Sockets :
       session'[h] = IF stamped /\ h = baileysSessions[t]
                     THEN [session[h] EXCEPT !.lastActivityTime = now]
                     ELSE session[h]
  /\ UNCHANGED <<sock, authDir, creating, timers, removing, sweep>>

\* C32: a lookup of a tenant's connection, and every turn of an outbound
\* send, writes at most the lastActivityTime of the tenant's current entry
\* (the lookup always, if there is an entry); a messages.upsert batch writes
\* no field of any entry; none of them adds or removes a map entry.
C32_UseOnlyStampsActivity ==
  [][/\ obs'.op = "getSocket"
          => \A t \in Tenants : GetBaileysSocket(t) => OnlyStamps(t, HasSession(t))
     /\ obs'.op = "action"
          => /\ \A k \in 1..MaxActions, t \in Tenants, r \in TextRequests :
                  PostAction(k, t, r.body, r.action) => OnlyStamps(t, HasSession(t))
             /\ \A k \in 1..MaxActions, outcome \in SendOutcomes :
                  TextSendSettle(k, outcome) => OnlyStamps(actions[k].id, FALSE)
     /\ obs'.op = "upsert" => OnlyStamps(session[obs'.ret].mcpSessionId, FALSE)]_vars

\* a lookup stamped the current entry at a later time than the session of a
\* superseded connection of the same tenant, which it left alone
C32_Witness ==
  /\ obs.op = "getSocket"
  /\ HasSession("t1")
  /\ session[baileysSessions["t1"]].lastActivityTime = now
  /\ \E g \in SocketsOf("t1") : session[g].lastActivityTime < now

\* C33: cleanupStaleSessions(T) removes every session whose lastSeen is more
\* than T before the sweep time, ending its transport unless that already
\* closed, and keeps every other session as it is; a session whose removal
\* fails may stay, but every other stale session is removed all the same.
C33_StaleSweepIsolatesFailures ==
  [][obs'.op = "cleanupStale"
       => \A T \in 0..MaxIdle, failing \in Tenants \cup {"none"} :
            CleanupStaleSessions(T, failing)
              => \A id \in Tenants :
                   mcpSessions[id].id # "none" /\ ~EndThrows(id, failing)
                     => IF now - mcpSessions[id].lastSeen > T
                        THEN /\ mcpSessions'[id] = NoMcp
                             /\ connection'[id].ended \/ connection[id].closed
                        ELSE /\ mcpSessions'[id] = mcpSessions[id]
                             /\ connection'[id] = connection[id]]_vars

\* C34: an update delivered by a connection that is not the one of its
\* tenant's current entry leaves the current entry's retryCount and qrCode as
\* they are, starts no removal and arms no timer that would delete the entry.
C34_SupersededEventsLeaveEntry ==
  [][obs'.op = "update"
       => LET h == obs'.ret
              t == session[h].mcpSessionId
              cur == baileysSessions[t]
          IN HasSession(t) /\ cur # h
               => /\ session'[cur].retryCount = session[cur].retryCount
                  /\ session'[cur].qrCode = session[cur].qrCode
                  /\ removing' = removing
                  /\ timers' = timers]_vars

\* C35: every connection that was constructed, has not closed and was neither
\* logged out nor ended is the one the map holds for its tenant.
C35_LiveConnectionsAreReferenced ==
  \A h \in Constructed :
    sock[h].life = "live" /\ sock[h].ws # "closed"
      => baileysSessions[session[h].mcpSessionId] = h

\* the step writes to no transport but the one registered under id
WritesOnlyTo(id) == \A other \in Tenants \ {id} : wire'[other] = wire[other]

\* C36: the events of a connection update or a message batch of tenant T's
\* connection, and the events and the response of an action posted for T,
\* are written to no transport but the one registered under T.
C36_EventsReachOwnTransportOnly ==
  [][/\ obs'.op \in {"update", "upsert"} => WritesOnlyTo(session[obs'.ret].mcpSessionId)
     /\ obs'.op = "action"
          => /\ \A k \in 1..MaxActions, t \in Tenants, r \in TextRequests :
                  PostAction(k, t, r.body, r.action) => WritesOnlyTo(t)
             /\ \A k \in 1..MaxActions, outcome \in SendOutcomes :
                  TextSendSettle(k, outcome) => WritesOnlyTo(actions[k].id)]_vars

\* with both clients connected, the frame of an event of tenant t1 was
\* written to t1's transport and t2's transport holds its first frame only
C36_Witness ==
  /\ obs.op \in {"update", "upsert", "action"}
  /\ Len(wire["t1"]) > 1
  /\ wire["t2"] = FirstFrames("t2")
  /\ mcpSessions["t2"].id # "none"

C38_FailedCreationLeavesMap ==
  [][obs'.op = "initThrew"
       => \A t \in Tenants, at \in {"load", "factory"} :
            GetOrCreateThrow(t, "api", at)
              => /\ baileysSessions' = baileysSessions
                 /\ mapOrder' = mapOrder
                 /\ session' = session
                 /\ sock' = sock
                 /\ lastRet' = lastRet]_vars

\* a creation failed in the socket factory after the load had created the
\* credential directory; the tenant has no entry and no call under way
C38_Witness ==
  /\ obs.op = "initThrew"
  /\ ~HasSession("t1")
  /\ Untouched("t1")
  /\ authDir["t1"] = "empty"
  /\ SocketsOf("t1") = {}

ForwardedAt(batch) == {i \in 1..Len(batch) : batch[i].message /\ ~batch[i].fromMe}

\* the k-th of a set of positions, in increasing order
NthOf(K, k) == CHOOSE i \in K : Cardinality({j \in K : j < i}) = k - 1

\* C40: the turn that receives a message batch invokes onMessage once for
\* every message of the batch that has content and was not sent by the tenant
\* itself, in batch order, and for no other message; what reaches the tenant's
\* transport in that turn is new-message frames of those messages, in order.
C40_OnMessageOncePerForwardedMessage ==
  [][obs'.op = "upsert"
       => LET batch == obs'.batch
              K == ForwardedAt(batch)
              t == session[obs'.ret].mcpSessionId
          IN /\ Len(obs'.cb) = Cardinality(K)
             /\ \A k \in 1..Len(obs'.cb) :
                  obs'.cb[k] = <<"onMessage", batch[NthOf(K, k)].id>>
             /\ \E x \in Subsequences(obs'.cb) :
                  wire'[t] = wire[t] \o [i \in 1..Len(x) |->
                                            Frame("baileys_new_message", x[i][2])]
             /\ \A id \in Tenants \ {t} : wire'[id] = wire[id]]_vars

\* a batch of two whose first message was sent by the tenant itself and whose
\* second was forwarded to the listening client, alone
C40_Witness ==
  /\ obs.op = "upsert"
  /\ Len(obs.batch) = 2
  /\ obs.batch[1].message /\ obs.batch[1].fromMe
  /\ obs.batch[2].message /\ ~obs.batch[2].fromMe
  /\ obs.cb = <<<<"onMessage", obs.batch[2].id>>>>
  /\ LET t == session[obs.ret].mcpSessionId
     IN wire[t] = FirstFrames(t) \o <<Frame("baileys_new_message", obs.batch[2].id)>>
====
